---- MODULE Spec2Model ----
(***************************************************************************)
(* PartsToPixels: the Sender transport (sender.c, socket.c, socket.h), the *)
(* Director main loop (direct.ts) and the ambient-light controller         *)
(* (sense.ts), with the Redis broker and the NIC they talk to.             *)
(*                                                                         *)
(* Integers are TLC's 32-bit integers, so 48/64-bit quantities (the MAC    *)
(* addresses) are kept as the bytes of their memory image, and times are   *)
(* whole nanosecond counts.                                                *)
(***************************************************************************)
EXTENDS Integers, Sequences, FiniteSets, TLC

VARIABLES
  (* broker *)
  queue,               \* list player:frames
  sender_brightness,   \* key sender:brightness (a reply: NIL or a string)
  (* NIC *)
  hwaddr,              \* eth0's hardware address, ifr_hwaddr.sa_data[0..5]
  (* sender.c / socket.c *)
  pc,                  \* where main() is
  row,                 \* loop variable of the row loop
  src,                 \* offset of the pointer src into the frame
  rr_blpop,            \* reply of the last BLPOP
  rr_brightness,       \* reply of the last GET sender:brightness
  payload,             \* the reusable row buffer
  current_brightness,  \* socket.c static
  frame_data,          \* socket.c static, the frame commit template
  src_mac,             \* socket.c static uint64_t, as its 8 bytes in memory
  elapsed,             \* CLOCK_MONOTONIC_RAW - send_started, in ns
  sent,                \* the last Ethernet frame handed to sendto()
  wire,                \* the frames handed to sendto() since the last commit
  (* direct.ts *)
  d_pc,                \* where the main loop is
  pushed,              \* let pushed
  d_sleep,             \* ms of the pending sleep(), 0 with none pending
  rendered,            \* tag of the next frame player.play() renders
  (* sense.ts *)
  sensorReadings,      \* the rolling window
  currentBrightness,
  player_brightness,   \* key player:brightness
  channel,             \* last message on player:brightness:channel
  ramp,                \* cycles so far that read lux 0, 10000, 10000, ...
  light,               \* the sensor's raw count, and how often it has changed
  (* sender.c, signals and resources *)
  running,             \* volatile sig_atomic_t running
  resources,           \* what main() holds, in the order it acquired it
  released,            \* what main() has released, in the order it did
  exit_code,           \* main()'s return value, -1 while it runs
  late_polls,          \* queue polls issued with running == 0
  (* broker, as the consumer sees it *)
  dequeued,            \* tag of the last frame a BLPOP returned since the
                       \* last DEL, -1 with none
  (* player.ts *)
  the_movie,           \* the Movie object of the caller of load()
  player,              \* the Player object
  ret,                 \* what the last call of play() returned
  trace,               \* what is known of the calls since the last load()
  (* failures and restarts *)
  faults,              \* what fails for the Sender: of "socket", "malloc", "broker"
  socket_fd,           \* socket.c static fd, -1 for no descriptor
  rc_err,              \* the hiredis context's err flag
  restarts,            \* the times the Director was killed and started again
  (* player.ts, drawing *)
  fill,                \* the fill attribute of the animation being drawn
  fillStyle,           \* context.fillStyle, <<>> before the first draw
  (* direct.ts and sense.ts, startup, I2C bus and shutdown *)
  storedBrightness,    \* direct.ts: the reply to GET player:brightness
  inbox,               \* direct.ts: the channel messages the broker has sent
                       \* to the subscriber connection, not yet handled
  lastMessage,         \* direct.ts: the last message handled, <<>> for none
  i2cBus,              \* sense.ts: "open" or "null"
  a_pc,                \* sense.ts: "loop", "backoff" (the catch's sleep), "exited"
  d_shutdown,          \* direct.ts shutdown(): 0 not called, 1 subscriber.quit()
                       \* done, 2 redis.quit() done, 3 process.exit(0)
  a_shutdown           \* sense.ts shutdown(): 0 not called, 1 closeBus() done,
                       \* 2 redis.quit() done, 3 process.exit(0)

vars == <<queue, sender_brightness, hwaddr, pc, row, src, rr_blpop,
          rr_brightness, payload, current_brightness, frame_data, src_mac,
          elapsed, sent, wire, d_pc, pushed, d_sleep, rendered,
          sensorReadings, currentBrightness, player_brightness, channel, ramp,
          running, resources, released, exit_code, late_polls, dequeued,
          the_movie, player, ret, trace, faults, socket_fd, rc_err, restarts,
          fill, fillStyle, storedBrightness, inbox, lastMessage, i2cBus, a_pc,
          d_shutdown, a_shutdown, light>>

brokerVars == <<queue, sender_brightness>>
senderVars == <<pc, row, src, rr_blpop, rr_brightness, payload,
                current_brightness, frame_data, src_mac, elapsed, sent, wire>>
directorVars == <<d_pc, pushed, d_sleep, rendered>>
ambientVars == <<sensorReadings, currentBrightness, player_brightness, channel, ramp>>
faultVars == <<faults, socket_fd, rc_err, restarts>>
canvasVars == <<fill, fillStyle>>
lifeVars == <<storedBrightness, inbox, lastMessage, i2cBus, a_pc, d_shutdown, a_shutdown, light>>
signalVars == <<running, resources, released, exit_code, late_polls>>
playerVars == <<the_movie, player, ret, trace>>

-----------------------------------------------------------------------------
(* sender.c constants *)
BILLION == 1000000000
BYTES_PER_PIXEL == 4
FPS == 240
ROW_HEADER_SIZE == 7
SIGN_WIDTH == 320
SIGN_HEIGHT == 64
SLEEP_THRESHOLD_NS == 200000
SLEEP_MARGIN_NS == 100000
BLPOP_TIMEOUT_S == 1

(* socket.c / socket.h constants *)
ETH_ALEN == 6
BUF_SIZ == 1540
ETHER_HEADER_SIZE == 14
ROW_ETHER_TYPE == 21760
FRAME_ETHER_TYPE == 263
FRAME_DATA_LENGTH == 98
FRAME_BRIGHTNESS_OFFSET == 21
FRAME_GAMMA_FLAG_OFFSET == 22
FRAME_BRIGHTNESS_R_OFFSET == 24
FRAME_BRIGHTNESS_G_OFFSET == 25
FRAME_BRIGHTNESS_B_OFFSET == 26
GAMMA_FLAG == 5
FLAGS_1 == 8
FLAGS_2 == 136

\* DEST_MAC 0x112233445566ULL as the 8 bytes of a uint64_t, least
\* significant byte first.
DEST_MAC == <<102, 85, 68, 51, 34, 17, 0, 0>>

(* bounds of the model *)
MaxQueue == 1
TickNs == 2100000

-----------------------------------------------------------------------------
(* Redis replies *)
NilReply == [type |-> "NIL"]
StringReply(s) == [type |-> "STRING", str |-> s]
\* A BLPOP hit is the array [key, value]; the value is a byte buffer, kept as
\* its length and the seed its bytes are generated from.
ArrayReply(e) == [type |-> "ARRAY", len |-> e.len, seed |-> e.seed]

\* Byte i (0-based) of a queue element.
FrameByte(f, i) == (f.seed * 53 + i * 37 + (i \div 256) * 11) % 256

ExpectedLen == SIGN_WIDTH * SIGN_HEIGHT * BYTES_PER_PIXEL
PayloadLength == ROW_HEADER_SIZE + SIGN_WIDTH * 3

(* inputs *)
FrameSeeds == {1, 2}
ValidFrames == {[len |-> ExpectedLen, seed |-> s] : s \in FrameSeeds}
ShortFrames == {[len |-> ExpectedLen - BYTES_PER_PIXEL, seed |-> 1]}
HwAddrs == {<<2, 0, 0, 0, 0, 1>>, <<220, 166, 50, 1, 2, 3>>}
GarbageBytes == {0, 170}
BrightnessStrings ==
  {<<"4", "2">>, <<"2", "5", "6">>, <<"-", "1">>, <<"7", "x">>}

-----------------------------------------------------------------------------
(* libc *)
Digits == <<"0", "1", "2", "3", "4", "5", "6", "7", "8", "9">>
IsDigit(c) == \E d \in 1..10 : Digits[d] = c
DigitVal(c) == (CHOOSE d \in 1..10 : Digits[d] = c) - 1

RECURSIVE atoi_digits(_, _)
atoi_digits(s, acc) ==
  IF s = <<>> \/ ~IsDigit(Head(s)) THEN acc
  ELSE atoi_digits(Tail(s), acc * 10 + DigitVal(Head(s)))

RECURSIVE atoi(_)
atoi(s) ==
  IF s = <<>> THEN 0
  ELSE IF Head(s) = " " THEN atoi(Tail(s))
  ELSE IF Head(s) = "-" THEN 0 - atoi_digits(Tail(s), 0)
  ELSE IF Head(s) = "+" THEN atoi_digits(Tail(s), 0)
  ELSE atoi_digits(s, 0)

\* htons: the two bytes of a 16-bit value as they go on the wire.
htons(x) == <<(x \div 256) % 256, x % 256>>

\* memcpy(&src_mac, sa_data, 6) into a zero-initialised static uint64_t: the
\* six bytes land at the six lowest addresses (little-endian aarch64/x86:
\* the lowest address is the least significant byte).
memcpy_mac(sa_data) == [k \in 1..8 |-> IF k <= ETH_ALEN THEN sa_data[k] ELSE 0]

\* (mac >> (8*k)) & 0xFF of a uint64_t kept as its bytes, LSB first.
ShiftByte(mac, k) == mac[k + 1]

-----------------------------------------------------------------------------
(* socket.c *)
encode_mac(mac) ==
  <<ShiftByte(mac, 5), ShiftByte(mac, 4), ShiftByte(mac, 3),
    ShiftByte(mac, 2), ShiftByte(mac, 1), ShiftByte(mac, 0)>>

open_socket(sa_data) == memcpy_mac(sa_data)

\* The Ethernet frame send_socket hands to sendto().
send_socket(mac, ether_type, data, len) ==
  LET l == IF len + ETHER_HEADER_SIZE > BUF_SIZ
           THEN BUF_SIZ - ETHER_HEADER_SIZE ELSE len
  IN [ether_shost |-> encode_mac(mac),
      ether_dhost |-> encode_mac(DEST_MAC),
      ether_type  |-> htons(ether_type),
      data        |-> SubSeq(data, 1, l)]

set_brightness(brightness) ==
  IF brightness < 0 THEN 0
  ELSE IF brightness > 255 THEN 255
  ELSE brightness

\* mutant of send_frame_data: the blue channel's store is missing
send_frame_data_no_blue(fd, b) ==
  [i \in 1..FRAME_DATA_LENGTH |->
     IF i - 1 \in {FRAME_BRIGHTNESS_OFFSET, FRAME_BRIGHTNESS_R_OFFSET,
                   FRAME_BRIGHTNESS_G_OFFSET}
       THEN b % 256
     ELSE IF i - 1 = FRAME_GAMMA_FLAG_OFFSET THEN GAMMA_FLAG
     ELSE fd[i]]

\* frame_data after send_frame's five stores (uint8_t stores).
send_frame_data(fd, b) ==
  [i \in 1..FRAME_DATA_LENGTH |->
     IF i - 1 \in {FRAME_BRIGHTNESS_OFFSET, FRAME_BRIGHTNESS_R_OFFSET,
                   FRAME_BRIGHTNESS_G_OFFSET, FRAME_BRIGHTNESS_B_OFFSET}
       THEN b % 256
     ELSE IF i - 1 = FRAME_GAMMA_FLAG_OFFSET THEN GAMMA_FLAG
     ELSE fd[i]]

send_frame(mac, fd, b) ==
  send_socket(mac, FRAME_ETHER_TYPE, send_frame_data(fd, b), FRAME_DATA_LENGTH)

send_row(mac, data, len) == send_socket(mac, ROW_ETHER_TYPE, data, len)

-----------------------------------------------------------------------------
(* sender.c: process_and_send_frame *)

\* The brightness the poll applies: set_brightness is called only for a
\* string reply whose atoi is within 0..255.
apply_brightness(reply, cur) ==
  IF reply.type = "STRING"
    THEN LET brightness == atoi(reply.str)
         IN IF brightness >= 0 /\ brightness <= 255
              THEN set_brightness(brightness) ELSE cur
  ELSE cur

\* mutant of row_header: the width stored low byte first
row_header_width_le(r) ==
  <<r % 256, 0, 0, SIGN_WIDTH % 256, (SIGN_WIDTH \div 256) % 256,
    FLAGS_1, FLAGS_2>>

\* hdr->row .. hdr->flags_2, uint8_t stores into the packed struct.
row_header(r) ==
  <<r % 256, 0, 0, (SIGN_WIDTH \div 256) % 256, SIGN_WIDTH % 256,
    FLAGS_1, FLAGS_2>>

\* mutant of row_pixels: the bytes copied in memory order, src[0], src[1], src[2]
row_pixels_unswapped(f, s) ==
  [k \in 1..(SIGN_WIDTH * 3) |->
     FrameByte(f, s + BYTES_PER_PIXEL * ((k - 1) \div 3) + ((k - 1) % 3))]

\* The inner loop: for each col, src[2], src[1], src[0], then src += 4.
row_pixels(f, s) ==
  [k \in 1..(SIGN_WIDTH * 3) |->
     FrameByte(f, s + BYTES_PER_PIXEL * ((k - 1) \div 3) + (2 - ((k - 1) % 3)))]

\* The row buffer after the header stores and the pixel loop.
fill_row(buf, f, r, s) ==
  LET hdr == row_header(r)
      pix == row_pixels(f, s)
  IN [i \in 1..Len(buf) |->
        IF i <= ROW_HEADER_SIZE THEN hdr[i]
        ELSE IF i - ROW_HEADER_SIZE <= SIGN_WIDTH * 3 THEN pix[i - ROW_HEADER_SIZE]
        ELSE buf[i]]

\* mutant of poll_result: no length check
poll_result_any_length(reply) ==
  IF reply.type = "NIL" THEN -1 ELSE 0

\* What the poll returns: 0 to go on to the rows, -1 otherwise.
poll_result(reply) ==
  IF reply.type = "NIL" THEN -1
  ELSE IF reply.len # ExpectedLen THEN -1
  ELSE 0

\* The packets of a burst (by their place in it, 1..65) whose sendto() may
\* fail while the network is in trouble.
FailAt == {1, 32, 65}

\* What sendto() may return for the n-th packet p of a burst: tx_len, or -1
\* on a bad descriptor or a network in trouble.
sendto(p, n) ==
  LET tx_len == ETHER_HEADER_SIZE + Len(p.data)
  IN IF socket_fd < 0 THEN {-1}
     ELSE IF "sendto" \in faults /\ n \in FailAt THEN {-1, tx_len}
     ELSE {tx_len}

\* send_socket: sendto() is called with the Ethernet frame p, a negative
\* return is reported with perror and the value is returned; no caller
\* looks at it. wire keeps the frames since the last commit frame (its
\* summary: EtherType, first payload byte, the queue element being processed
\* and what sendto() returned).
Emit(p) ==
  LET burst_over == wire # <<>> /\ wire[Len(wire)].ether_type = htons(FRAME_ETHER_TYPE)
      n == IF burst_over THEN 1 ELSE Len(wire) + 1
  IN \E r \in sendto(p, n) :
       LET e == [ether_type |-> p.ether_type, row |-> p.data[1], frame |-> rr_blpop,
                 ret |-> r]
       IN /\ sent' = p
          /\ wire' = IF burst_over THEN <<e>> ELSE Append(wire, e)

\* elapsed is kept up to the first value that is >= 1/FPS s: the wait loop
\* only compares it with FPS_SLEEP. For whole nanoseconds e,
\* e / 1e9 >= 1 / FPS exactly when e >= ceil(1e9 / FPS).
DeadlineNs == (BILLION + FPS - 1) \div FPS
Reached(e) == e >= DeadlineNs
Saturate(e) == IF Reached(e) THEN DeadlineNs ELSE e

\* while (running): into the next poll, or out of the loop.
loop_test == IF running THEN "poll" ELSE "shutdown"

\* socket(): the descriptor, or -1 when the call fails.
socket_call == IF "socket" \in faults THEN -1 ELSE 3

\* What the SIOCGIFHWADDR ioctl leaves in if_mac.ifr_hwaddr.sa_data: the
\* NIC's address, or the zeroes of the memset when the ioctl fails (it does
\* on descriptor -1); the failure is only reported with perror.
ioctl_hwaddr(sock) == IF sock < 0 THEN <<0, 0, 0, 0, 0, 0>> ELSE hwaddr

\* connect_to_redis: one failed attempt at the broker, then sleep(1).
connect_to_redis_failed ==
  /\ pc = "start"
  /\ "broker" \in faults
  /\ pc' = "connect_sleep"
  /\ UNCHANGED <<directorVars, ambientVars, brokerVars, hwaddr, faultVars, canvasVars, lifeVars, signalVars, dequeued, playerVars, row, src, rr_blpop, rr_brightness, payload,
                 current_brightness, frame_data, src_mac, elapsed, sent, wire>>

\* connect_to_redis: the sleep(1) is over, the do-while loop tries again.
connect_to_redis_retry ==
  /\ pc = "connect_sleep"
  /\ pc' = "start"
  /\ UNCHANGED <<directorVars, ambientVars, brokerVars, hwaddr, faultVars, canvasVars, lifeVars, signalVars, dequeued, playerVars, row, src, rr_blpop, rr_brightness, payload,
                 current_brightness, frame_data, src_mac, elapsed, sent, wire>>

\* main() up to the loop: connect to the broker, seed the brightness key,
\* open the socket (its return value is not looked at), allocate the row
\* buffer (uninitialised memory), take the first timestamps, test the loop
\* condition.
main_startup ==
  /\ pc = "start"
  /\ "broker" \notin faults
  /\ "malloc" \notin faults
  /\ sender_brightness' =
       IF sender_brightness.type = "NIL"
         THEN StringReply(<<"2", "5", "5">>) ELSE sender_brightness
  /\ socket_fd' = socket_call
  /\ src_mac' = open_socket(ioctl_hwaddr(socket_call))
  /\ \E g \in GarbageBytes : payload' = [i \in 1..PayloadLength |-> g]
  /\ elapsed' = 0
  /\ resources' = <<"redis", "socket", "payload">>
  /\ pc' = loop_test
  /\ UNCHANGED <<directorVars, ambientVars, queue, hwaddr, faults, rc_err, restarts, canvasVars, lifeVars, running, released, exit_code, late_polls,
                 dequeued, playerVars, row, src, rr_blpop, rr_brightness,
                 current_brightness, frame_data, sent, wire>>

\* BLPOP player:frames 1 and GET sender:brightness in one round trip, the
\* brightness, NIL and length checks. A BLPOP on an empty list returns NIL
\* after its 1 s timeout.
process_and_send_frame_poll ==
  /\ pc = "poll"
  /\ ~rc_err
  /\ "broker" \notin faults
  /\ LET blpop == IF queue = <<>> THEN NilReply ELSE ArrayReply(Head(queue))
     IN /\ rr_blpop' = blpop
        /\ queue' = IF queue = <<>> THEN queue ELSE Tail(queue)
        /\ rr_brightness' = sender_brightness
        /\ current_brightness' = apply_brightness(sender_brightness, current_brightness)
        /\ elapsed' = IF queue = <<>> THEN Saturate(elapsed + BLPOP_TIMEOUT_S * BILLION)
                      ELSE elapsed
        /\ IF poll_result(blpop) = 0
             THEN pc' = "rows" /\ row' = 0 /\ src' = 0
             ELSE pc' = "backoff" /\ UNCHANGED <<row, src>>
  /\ late_polls' = IF running THEN late_polls ELSE late_polls + 1
  /\ UNCHANGED <<directorVars, ambientVars, sender_brightness, hwaddr, faultVars, canvasVars, lifeVars, running, resources, released,
                 exit_code, dequeued, playerVars, payload, frame_data, src_mac, sent, wire>>

\* main() when malloc returns NULL: the message, redisFree(rc), return 1. The
\* socket opened just before stays open.
main_startup_no_memory ==
  /\ pc = "start"
  /\ "broker" \notin faults
  /\ "malloc" \in faults
  /\ sender_brightness' =
       IF sender_brightness.type = "NIL"
         THEN StringReply(<<"2", "5", "5">>) ELSE sender_brightness
  /\ socket_fd' = socket_call
  /\ src_mac' = open_socket(ioctl_hwaddr(socket_call))
  /\ resources' = <<"redis", "socket">>
  /\ released' = <<"redis">>
  /\ exit_code' = 1
  /\ pc' = "exited"
  /\ UNCHANGED <<directorVars, ambientVars, queue, hwaddr, faults, rc_err, restarts, canvasVars, lifeVars, running, late_polls,
                 dequeued, playerVars, row, src, rr_blpop, rr_brightness, payload, elapsed,
                 current_brightness, frame_data, sent, wire>>

\* process_and_send_frame when redisGetReply does not return REDIS_OK: the
\* replies are freed and -1 is returned. The context keeps its error, so
\* every later call on it fails the same way.
process_and_send_frame_error ==
  /\ pc = "poll"
  /\ rc_err \/ "broker" \in faults
  /\ rc_err' = TRUE
  /\ rr_blpop' = NilReply
  /\ rr_brightness' = NilReply
  /\ pc' = "backoff"
  /\ late_polls' = IF running THEN late_polls ELSE late_polls + 1
  /\ UNCHANGED <<directorVars, ambientVars, queue, sender_brightness, hwaddr, faults, socket_fd, restarts, canvasVars, lifeVars, running, resources, released,
                 exit_code, dequeued, playerVars, row, src, current_brightness, elapsed, payload, frame_data, src_mac, sent, wire>>

\* mutant of row_loop: the loop is left after a send that failed
row_loop_until_error(r) ==
  r < SIGN_HEIGHT /\ (IF wire = <<>> THEN TRUE ELSE wire[Len(wire)].ret >= 0)

\* mutant of row_loop: the last row is left out
row_loop_short(r) == r < SIGN_HEIGHT - 1

\* The row loop's condition.
row_loop(r) == r < SIGN_HEIGHT

\* One iteration of the row loop: header, pixels, send_row.
process_and_send_frame_row ==
  /\ pc = "rows"
  /\ row_loop(row)
  /\ payload' = fill_row(payload, rr_blpop, row, src)
  /\ Emit(send_row(src_mac, payload', PayloadLength))
  /\ src' = src + SIGN_WIDTH * BYTES_PER_PIXEL
  /\ row' = row + 1
  /\ UNCHANGED <<directorVars, ambientVars, brokerVars, hwaddr, faultVars, canvasVars, lifeVars, signalVars, dequeued, playerVars, pc, rr_blpop, rr_brightness,
                 current_brightness, frame_data, src_mac, elapsed>>

\* The row loop ends, process_and_send_frame returns 0, main reads the clock.
process_and_send_frame_return ==
  /\ pc = "rows"
  /\ ~row_loop(row)
  /\ pc' = "wait"
  /\ UNCHANGED <<directorVars, ambientVars, brokerVars, hwaddr, faultVars, canvasVars, lifeVars, signalVars, dequeued, playerVars, row, src, rr_blpop, rr_brightness, payload,
                 current_brightness, frame_data, src_mac, elapsed, sent, wire>>

\* mutant of sleep_us: the sleep is requested for all of the remaining time
sleep_us_no_margin(e) == (BILLION - FPS * e) \div (FPS * 1000)

\* useconds_t us = (remaining - SLEEP_MARGIN_S) * 1e6, truncated.
sleep_us(e) == (BILLION - FPS * (e + SLEEP_MARGIN_NS)) \div (FPS * 1000)

\* One iteration of the hybrid wait: with more than 200 us remaining,
\* usleep(us) (which may oversleep), else spin; then the clock is read again.
main_wait ==
  /\ pc = "wait"
  /\ ~Reached(elapsed)
  /\ IF BILLION - FPS * elapsed > FPS * SLEEP_THRESHOLD_NS
       THEN \/ elapsed' = Saturate(elapsed + sleep_us(elapsed) * 1000)
            \/ elapsed' = DeadlineNs
       ELSE elapsed' = DeadlineNs
  /\ UNCHANGED <<directorVars, ambientVars, brokerVars, hwaddr, faultVars, canvasVars, lifeVars, signalVars, dequeued, playerVars, pc, row, src, rr_blpop, rr_brightness, payload,
                 current_brightness, frame_data, src_mac, sent, wire>>

\* mutant of main_commit: send_frame() without the new frame-start timestamp
main_commit_same_timestamp ==
  /\ pc = "wait"
  /\ Reached(elapsed)
  /\ frame_data' = send_frame_data(frame_data, current_brightness)
  /\ Emit(send_frame(src_mac, frame_data, current_brightness))
  /\ pc' = loop_test
  /\ UNCHANGED <<directorVars, ambientVars, brokerVars, hwaddr, faultVars, canvasVars, lifeVars, signalVars, dequeued, playerVars, row, src, rr_blpop, rr_brightness, payload,
                 current_brightness, src_mac, elapsed>>

\* mutant of main_commit: the commit does not wait for the deadline
main_commit_early ==
  /\ pc = "wait"
  /\ elapsed' = 0
  /\ frame_data' = send_frame_data(frame_data, current_brightness)
  /\ Emit(send_frame(src_mac, frame_data, current_brightness))
  /\ pc' = loop_test
  /\ UNCHANGED <<directorVars, ambientVars, brokerVars, hwaddr, faultVars, canvasVars, lifeVars, signalVars, dequeued, playerVars, row, src, rr_blpop, rr_brightness, payload,
                 current_brightness, src_mac>>

\* The deadline is reached: send_started = now, send_frame(); the loop
\* condition is tested.
main_commit ==
  /\ pc = "wait"
  /\ Reached(elapsed)
  /\ elapsed' = 0
  /\ frame_data' = send_frame_data(frame_data, current_brightness)
  /\ Emit(send_frame(src_mac, frame_data, current_brightness))
  /\ pc' = loop_test
  /\ UNCHANGED <<directorVars, ambientVars, brokerVars, hwaddr, faultVars, canvasVars, lifeVars, signalVars, dequeued, playerVars, row, src, rr_blpop, rr_brightness, payload,
                 current_brightness, src_mac>>

\* mutant of main_backoff: the retry path takes a new frame-start timestamp
main_backoff_restamp ==
  /\ pc = "backoff"
  /\ pc' = loop_test
  /\ elapsed' = 0
  /\ UNCHANGED <<directorVars, ambientVars, brokerVars, hwaddr, faultVars, canvasVars, lifeVars, signalVars, dequeued, playerVars,
                 row, src, rr_blpop, rr_brightness, payload,
                 current_brightness, frame_data, src_mac, sent, wire>>

\* process_and_send_frame returned -1: if (!running) break; usleep(100);
\* continue, and the loop condition is tested.
main_backoff ==
  /\ pc = "backoff"
  /\ pc' = loop_test
  /\ UNCHANGED <<directorVars, ambientVars, brokerVars, hwaddr, faultVars, canvasVars, lifeVars, signalVars, dequeued, playerVars, row, src, rr_blpop, rr_brightness, payload,
                 current_brightness, frame_data, src_mac, elapsed, sent, wire>>

\* mutant of main_shutdown: the releases in the order of the acquisitions
main_shutdown_forward ==
  /\ pc = "shutdown"
  /\ released' = <<"redis", "socket", "payload">>
  /\ exit_code' = 0
  /\ pc' = "exited"
  /\ UNCHANGED <<directorVars, ambientVars, brokerVars, hwaddr, faultVars, canvasVars, lifeVars, running, resources, late_polls,
                 dequeued, playerVars, row, src, rr_blpop, rr_brightness, payload,
                 current_brightness, frame_data, src_mac, elapsed, sent, wire>>

\* After the loop: free(payload); close_socket(); redisFree(rc); return 0.
main_shutdown ==
  /\ pc = "shutdown"
  /\ released' = <<"payload", "socket", "redis">>
  /\ exit_code' = 0
  /\ pc' = "exited"
  /\ UNCHANGED <<directorVars, ambientVars, brokerVars, hwaddr, faultVars, canvasVars, lifeVars, running, resources, late_polls,
                 dequeued, playerVars, row, src, rr_blpop, rr_brightness, payload,
                 current_brightness, frame_data, src_mac, elapsed, sent, wire>>

\* SIGINT or SIGTERM is delivered: sig_handler.
sig_handler ==
  /\ running
  /\ pc # "exited"
  /\ running' = FALSE
  /\ UNCHANGED <<directorVars, ambientVars, brokerVars, hwaddr, faultVars, canvasVars, lifeVars, resources, released, exit_code,
                 late_polls, dequeued, playerVars, senderVars>>

SenderNext ==
  \/ main_startup
  \/ process_and_send_frame_poll
  \/ process_and_send_frame_row
  \/ process_and_send_frame_return
  \/ main_wait
  \/ main_commit
  \/ main_backoff

-----------------------------------------------------------------------------
(* the Sender's environment *)

\* Another client appends an element to player:frames.
Enqueue(e) ==
  /\ Len(queue) < MaxQueue
  /\ queue' = Append(queue, e)
  /\ UNCHANGED <<directorVars, ambientVars, sender_brightness, hwaddr, faultVars, canvasVars, lifeVars, signalVars, dequeued, playerVars, senderVars>>

\* Another client sets sender:brightness.
SetSenderBrightness(s) ==
  /\ sender_brightness # StringReply(s)
  /\ sender_brightness' = StringReply(s)
  /\ UNCHANGED <<directorVars, ambientVars, queue, hwaddr, faultVars, canvasVars, lifeVars, signalVars, dequeued, playerVars, senderVars>>

\* Time passes.
Tick ==
  /\ pc # "start"
  /\ ~Reached(elapsed)
  /\ elapsed' = Saturate(elapsed + TickNs)
  /\ UNCHANGED <<directorVars, ambientVars, brokerVars, hwaddr, faultVars, canvasVars, lifeVars, signalVars, dequeued, playerVars, pc, row, src, rr_blpop, rr_brightness, payload,
                 current_brightness, frame_data, src_mac, sent, wire>>

-----------------------------------------------------------------------------
-----------------------------------------------------------------------------
(* direct.ts *)
DIRECTOR_FPS == 240
PLAYER_BACKOFF_MS == 100
SENDER_WAIT_MS == 5
MOVIE_WIDTH == 320
MOVIE_HEIGHT == 64

(* bound: the number of distinct frame contents the model's player renders *)
FrameTags == 3

\* const fps = player.movie!.sign.fps ?? FPS; the default movie sets no fps.
director_fps == DIRECTOR_FPS

\* mutant of queue_full: the test is "more than fps"
queue_full_above(n) == n > director_fps

\* The back-pressure test, pushed === fps.
queue_full(n) == n = director_fps

\* player.play(); player.getImageData(): the canvas' RGBA buffer.
rendered_frame(tag) ==
  [len |-> MOVIE_WIDTH * MOVIE_HEIGHT * BYTES_PER_PIXEL, seed |-> tag + 1]

(* bound: no append is modelled once the list holds this many elements *)
MaxList == 243

\* play, getImageData, pushed = await redis.rpush(...); with the list at
\* fps, sleep(SENDER_WAIT_MS) is started.
director_rpush ==
  /\ d_pc = "play"
  /\ d_shutdown < 2
  /\ Len(queue) < MaxList
  /\ queue' = Append(queue, rendered_frame(rendered))
  /\ rendered' = (rendered + 1) % FrameTags
  /\ pushed' = Len(queue')
  /\ IF queue_full(pushed')
       THEN d_pc' = "sender_wait" /\ d_sleep' = SENDER_WAIT_MS
       ELSE d_pc' = "play" /\ d_sleep' = 0
  /\ UNCHANGED <<sender_brightness, hwaddr, faultVars, canvasVars, lifeVars, signalVars, dequeued, playerVars, senderVars, ambientVars>>

\* mutant of director_llen: the flush follows whatever the re-read returns
director_llen_unchecked ==
  /\ d_pc = "sender_wait"
  /\ pushed' = Len(queue)
  /\ d_sleep' = 0
  /\ d_pc' = "flush"
  /\ UNCHANGED <<brokerVars, hwaddr, faultVars, canvasVars, lifeVars, signalVars, dequeued, playerVars, senderVars, rendered, ambientVars>>

\* The 5 ms are over: pushed = await redis.llen(...).
director_llen ==
  /\ d_pc = "sender_wait"
  /\ d_shutdown < 2
  /\ pushed' = Len(queue)
  /\ d_sleep' = 0
  /\ d_pc' = IF queue_full(pushed') THEN "flush" ELSE "play"
  /\ UNCHANGED <<brokerVars, hwaddr, faultVars, canvasVars, lifeVars, signalVars, dequeued, playerVars, senderVars, rendered, ambientVars>>

\* mutant of director_del: the pause without the DEL
director_del_missing ==
  /\ d_pc = "flush"
  /\ d_sleep' = PLAYER_BACKOFF_MS
  /\ d_pc' = "backoff"
  /\ UNCHANGED <<brokerVars, hwaddr, faultVars, canvasVars, lifeVars, signalVars, dequeued, playerVars, senderVars, pushed, rendered, ambientVars>>

\* Promise.all([redis.del(...), sleep(PLAYER_BACKOFF_MS)]): the DEL runs on
\* the broker and the 100 ms start.
director_del ==
  /\ d_pc = "flush"
  /\ d_shutdown < 2
  /\ queue' = <<>>
  /\ dequeued' = -1
  /\ d_sleep' = PLAYER_BACKOFF_MS
  /\ d_pc' = "backoff"
  /\ UNCHANGED <<sender_brightness, hwaddr, faultVars, canvasVars, lifeVars, signalVars, playerVars, senderVars, pushed, rendered, ambientVars>>

\* The 100 ms are over: the next iteration.
director_backoff ==
  /\ d_pc = "backoff"
  /\ d_sleep' = 0
  /\ d_pc' = "play"
  /\ UNCHANGED <<brokerVars, hwaddr, faultVars, canvasVars, lifeVars, signalVars, dequeued, playerVars, senderVars, pushed, rendered, ambientVars>>

ERROR_BACKOFF_MS == 1000

\* A broker command issued on the connection after redis.quit(): play() and
\* getImageData() have run when it is the rpush; the command rejects, the
\* catch block logs and sleep(ERROR_BACKOFF_MS) starts.
director_rejected ==
  /\ d_pc \in {"play", "sender_wait", "flush"}
  /\ d_shutdown = 2
  /\ rendered' = IF d_pc = "play" THEN (rendered + 1) % FrameTags ELSE rendered
  /\ d_sleep' = ERROR_BACKOFF_MS
  /\ d_pc' = "error_backoff"
  /\ UNCHANGED <<brokerVars, hwaddr, faultVars, canvasVars, lifeVars, signalVars, dequeued, playerVars, senderVars, pushed, ambientVars>>

\* The sleep of the catch block is over: the next iteration.
director_error_backoff ==
  /\ d_pc = "error_backoff"
  /\ d_sleep' = 0
  /\ d_pc' = "play"
  /\ UNCHANGED <<brokerVars, hwaddr, faultVars, canvasVars, lifeVars, signalVars, dequeued, playerVars, senderVars, pushed, rendered, ambientVars>>

\* SIGINT or SIGTERM: shutdown() logs and awaits subscriber.quit(), which
\* resolves.
director_shutdown ==
  /\ d_shutdown = 0
  /\ d_shutdown' = 1
  /\ UNCHANGED <<light, brokerVars, hwaddr, faultVars, canvasVars, storedBrightness, inbox, lastMessage, i2cBus, a_pc, a_shutdown, signalVars, dequeued, playerVars, senderVars, directorVars, ambientVars>>

\* shutdown(): await redis.quit() resolves.
director_shutdown_quit ==
  /\ d_shutdown = 1
  /\ d_shutdown' = 2
  /\ UNCHANGED <<light, brokerVars, hwaddr, faultVars, canvasVars, storedBrightness, inbox, lastMessage, i2cBus, a_pc, a_shutdown, signalVars, dequeued, playerVars, senderVars, directorVars, ambientVars>>

\* shutdown(): process.exit(0).
director_shutdown_exit ==
  /\ d_shutdown = 2
  /\ d_shutdown' = 3
  /\ d_pc' = "exited"
  /\ d_sleep' = 0
  /\ UNCHANGED <<light, brokerVars, hwaddr, faultVars, canvasVars, storedBrightness, inbox, lastMessage, i2cBus, a_pc, a_shutdown, signalVars, dequeued, playerVars, senderVars, pushed, rendered, ambientVars>>

DirectorNext ==
  \/ director_rpush
  \/ director_llen
  \/ director_del
  \/ director_backoff

\* mutant of blpop: the element comes off the tail of the list
blpop_tail ==
  /\ queue # <<>>
  /\ queue' = SubSeq(queue, 1, Len(queue) - 1)
  /\ dequeued' = queue[Len(queue)].seed - 1
  /\ UNCHANGED <<sender_brightness, hwaddr, faultVars, canvasVars, lifeVars, signalVars, playerVars, senderVars, directorVars, ambientVars>>

\* The Sender's BLPOP as the broker sees it: the head of the list is taken
\* and handed to the Sender.
blpop ==
  /\ queue # <<>>
  /\ queue' = Tail(queue)
  /\ dequeued' = Head(queue).seed - 1
  /\ UNCHANGED <<sender_brightness, hwaddr, faultVars, canvasVars, lifeVars, signalVars, playerVars, senderVars, directorVars, ambientVars>>

-----------------------------------------------------------------------------
(* sense.ts *)
LUX_MAX == 400
BRIGHTNESS_MIN == 1
BRIGHTNESS_MAX == 100
BRIGHTNESS_INC_MAX == 5
WINDOW_SIZE == 10
\* SENSITIVITY 1.2 as the fraction 6 / 5
SENSITIVITY_NUM == 6
SENSITIVITY_DEN == 5

(* bound: the cycles of the ramp scenario that are counted *)
MaxRamp == 25

(* inputs: the sensor's raw counts *)
RawInputs == {0, 12000}

\* Math.round(Math.pow(lux / 400, 0.6) * 99 + 1) for lux = 0 .. 400, as
\* IEEE-754 doubles give it (no value is within 0.001 of a rounding tie).
LuxTable == <<
    1, 4, 5, 6, 7, 8, 9, 10, 10, 11, 12, 12, 13, 14, 14, 15, 15, 16, 16, 17,
    17, 18, 18, 19, 19, 20, 20, 21, 21, 22, 22, 22, 23, 23, 24, 24, 24, 25, 25, 25,
    26, 26, 27, 27, 27, 28, 28, 28, 29, 29, 29, 30, 30, 30, 31, 31, 31, 32, 32, 32,
    33, 33, 33, 34, 34, 34, 35, 35, 35, 35, 36, 36, 36, 37, 37, 37, 38, 38, 38, 38,
    39, 39, 39, 40, 40, 40, 40, 41, 41, 41, 41, 42, 42, 42, 43, 43, 43, 43, 44, 44,
    44, 44, 45, 45, 45, 45, 46, 46, 46, 46, 47, 47, 47, 47, 48, 48, 48, 48, 49, 49,
    49, 49, 50, 50, 50, 50, 51, 51, 51, 51, 51, 52, 52, 52, 52, 53, 53, 53, 53, 54,
    54, 54, 54, 54, 55, 55, 55, 55, 56, 56, 56, 56, 56, 57, 57, 57, 57, 57, 58, 58,
    58, 58, 59, 59, 59, 59, 59, 60, 60, 60, 60, 60, 61, 61, 61, 61, 61, 62, 62, 62,
    62, 63, 63, 63, 63, 63, 64, 64, 64, 64, 64, 65, 65, 65, 65, 65, 66, 66, 66, 66,
    66, 67, 67, 67, 67, 67, 67, 68, 68, 68, 68, 68, 69, 69, 69, 69, 69, 70, 70, 70,
    70, 70, 71, 71, 71, 71, 71, 71, 72, 72, 72, 72, 72, 73, 73, 73, 73, 73, 74, 74,
    74, 74, 74, 74, 75, 75, 75, 75, 75, 75, 76, 76, 76, 76, 76, 77, 77, 77, 77, 77,
    77, 78, 78, 78, 78, 78, 79, 79, 79, 79, 79, 79, 80, 80, 80, 80, 80, 80, 81, 81,
    81, 81, 81, 81, 82, 82, 82, 82, 82, 82, 83, 83, 83, 83, 83, 83, 84, 84, 84, 84,
    84, 84, 85, 85, 85, 85, 85, 85, 86, 86, 86, 86, 86, 86, 87, 87, 87, 87, 87, 87,
    88, 88, 88, 88, 88, 88, 89, 89, 89, 89, 89, 89, 90, 90, 90, 90, 90, 90, 90, 91,
    91, 91, 91, 91, 91, 92, 92, 92, 92, 92, 92, 93, 93, 93, 93, 93, 93, 93, 94, 94,
    94, 94, 94, 94, 95, 95, 95, 95, 95, 95, 95, 96, 96, 96, 96, 96, 96, 97, 97, 97,
    97, 97, 97, 97, 98, 98, 98, 98, 98, 98, 99, 99, 99, 99, 99, 99, 99, 100, 100, 100,
    100>>

Min(a, b) == IF a < b THEN a ELSE b
Max(a, b) == IF a > b THEN a ELSE b
Abs(a) == IF a < 0 THEN 0 - a ELSE a
Sign(a) == IF a > 0 THEN 1 ELSE IF a < 0 THEN -1 ELSE 0

RECURSIVE Sum(_)
Sum(w) == IF w = <<>> THEN 0 ELSE Head(w) + Sum(Tail(w))

\* n.toString() of an integer n >= 0
RECURSIVE toString(_)
toString(n) ==
  IF n < 10 THEN <<Digits[n + 1]>>
  ELSE Append(toString(n \div 10), Digits[(n % 10) + 1])

\* readLux: Math.floor(raw / SENSITIVITY)
lux_of(raw) == (raw * SENSITIVITY_DEN) \div SENSITIVITY_NUM

\* mutant of lux_reading: the curve without "+ BRIGHTNESS_MIN"
lux_reading_no_min(lux) == LuxTable[Min(lux, LUX_MAX) + 1] - BRIGHTNESS_MIN

\* luxToBrightness, the reading: normalized, gamma curve, Math.round
lux_reading(lux) == LuxTable[Min(lux, LUX_MAX) + 1]

\* luxToBrightness, the rolling window: push, shift when over WINDOW_SIZE
push_reading(w, r) ==
  LET a == Append(w, r)
  IN IF Len(a) > WINDOW_SIZE THEN Tail(a) ELSE a

\* luxToBrightness, Math.round(average): halves round up
round_average(w) == (2 * Sum(w) + Len(w)) \div (2 * Len(w))

\* mutant of rate_limit: the step is the whole difference
rate_limit_none(diff) == diff

\* Math.sign(diff) * Math.min(Math.abs(diff), BRIGHTNESS_INC_MAX)
rate_limit(diff) == Sign(diff) * Min(Abs(diff), BRIGHTNESS_INC_MAX)

\* Math.max(Math.min(currentBrightness + inc, BRIGHTNESS_MAX), BRIGHTNESS_MIN)
clamp_brightness(b) == Max(Min(b, BRIGHTNESS_MAX), BRIGHTNESS_MIN)

\* mutant of readLux_throws: the catch block without closeBus()
readLux_throws_bus_kept ==
  /\ a_pc = "loop"
  /\ "i2c" \in faults
  /\ i2cBus' = "open"
  /\ a_pc' = "backoff"
  /\ UNCHANGED <<light, brokerVars, hwaddr, faultVars, canvasVars, storedBrightness, inbox, lastMessage, d_shutdown, a_shutdown, signalVars, dequeued, playerVars, senderVars, directorVars, ambientVars>>

\* A cycle in which readLux rejects (openBus, an i2cWrite or the i2cRead
\* fails): the catch block logs, closeBus() leaves i2cBus null, and the
\* BACKOFF_MS sleep starts.
readLux_throws ==
  /\ a_pc = "loop"
  /\ "i2c" \in faults
  /\ i2cBus' = "null"
  /\ a_pc' = "backoff"
  /\ UNCHANGED <<light, brokerVars, hwaddr, faultVars, canvasVars, storedBrightness, inbox, lastMessage, d_shutdown, a_shutdown, signalVars, dequeued, playerVars, senderVars, directorVars, ambientVars>>

\* The sleep of the catch block is over: the next iteration.
ambient_backoff ==
  /\ a_pc = "backoff"
  /\ a_pc' = "loop"
  /\ UNCHANGED <<light, brokerVars, hwaddr, faultVars, canvasVars, storedBrightness, inbox, lastMessage, i2cBus, d_shutdown, a_shutdown, signalVars, dequeued, playerVars, senderVars, directorVars, ambientVars>>

\* One cycle of the control loop with the sensor reading raw; readLux opens
\* the bus when i2cBus is null.
updateBrightness(raw) ==
  LET lux == lux_of(raw)
      window == push_reading(sensorReadings, lux_reading(lux))
      target == round_average(window)
      diff == target - currentBrightness
      brightness == clamp_brightness(currentBrightness + rate_limit(diff))
  IN /\ a_pc = "loop"
     /\ a_shutdown < 2 \/ diff = 0
     /\ i2cBus' = "open"
     /\ sensorReadings' = window
     /\ ramp' = IF ramp >= 0 /\ lux = (IF ramp = 0 THEN 0 ELSE 10000)
                  THEN Min(ramp + 1, MaxRamp) ELSE -1
     /\ IF diff = 0
          THEN UNCHANGED <<currentBrightness, player_brightness, channel>>
          ELSE /\ currentBrightness' = brightness
               /\ channel' = toString(currentBrightness')
               /\ player_brightness' = StringReply(toString(currentBrightness'))
     /\ UNCHANGED <<light, brokerVars, hwaddr, faultVars, canvasVars, storedBrightness, inbox, lastMessage, a_pc, d_shutdown, a_shutdown, signalVars, dequeued, playerVars, senderVars, directorVars>>

AmbientNext == \E raw \in RawInputs : updateBrightness(raw)

(* bound: how often the light on the sensor changes *)
MaxChanges == 2

\* the light levels: dark, lux 125 (a reading of 50) and full brightness
LightLevels == {0, 150, 12000}

\* The light on the sensor changes to another level.
light_changes(raw) ==
  /\ light.changes < MaxChanges
  /\ raw # light.raw
  /\ light' = [raw |-> raw, changes |-> light.changes + 1]
  /\ UNCHANGED <<brokerVars, hwaddr, faultVars, canvasVars, storedBrightness, inbox, lastMessage, i2cBus, a_pc, d_shutdown, a_shutdown, signalVars, dequeued, playerVars, senderVars, directorVars, ambientVars>>

\* mutant of ambient_cycle: the step is the whole distance to the target
\* plus one
ambient_cycle_overshoot ==
  LET window == push_reading(sensorReadings, lux_reading(lux_of(light.raw)))
      target == round_average(window)
      diff == target - currentBrightness
      brightness == clamp_brightness(currentBrightness + diff + Sign(diff))
  IN /\ a_pc = "loop"
     /\ i2cBus' = "open"
     /\ sensorReadings' = window
     /\ ramp' = -1
     /\ IF diff = 0
          THEN UNCHANGED <<currentBrightness, player_brightness, channel>>
          ELSE /\ currentBrightness' = brightness
               /\ channel' = toString(currentBrightness')
               /\ player_brightness' = StringReply(toString(currentBrightness'))
     /\ UNCHANGED <<brokerVars, hwaddr, faultVars, canvasVars, storedBrightness, inbox, lastMessage, a_pc, d_shutdown, a_shutdown, light, signalVars, dequeued, playerVars, senderVars, directorVars>>

\* One cycle of the control loop; readLux returns what the sensor measures.
ambient_cycle == updateBrightness(light.raw)

\* A cycle after redis.quit() in which the brightness moves: the reading is
\* taken, the window and currentBrightness are updated, the publish and the
\* set reject; the catch block closes the bus and sleeps.
updateBrightness_rejected(raw) ==
  LET lux == lux_of(raw)
      window == push_reading(sensorReadings, lux_reading(lux))
      target == round_average(window)
      diff == target - currentBrightness
      brightness == clamp_brightness(currentBrightness + rate_limit(diff))
  IN /\ a_pc = "loop"
     /\ a_shutdown = 2 /\ diff # 0
     /\ sensorReadings' = window
     /\ ramp' = IF ramp >= 0 /\ lux = (IF ramp = 0 THEN 0 ELSE 10000)
                  THEN Min(ramp + 1, MaxRamp) ELSE -1
     /\ currentBrightness' = brightness
     /\ i2cBus' = "null"
     /\ a_pc' = "backoff"
     /\ UNCHANGED <<light, brokerVars, hwaddr, faultVars, canvasVars, storedBrightness, inbox, lastMessage, d_shutdown, a_shutdown, signalVars, dequeued, playerVars, senderVars, directorVars, player_brightness, channel>>

\* SIGINT or SIGTERM: shutdown() logs and awaits closeBus(), which closes
\* the handle, if there is one, and sets i2cBus to null.
ambient_shutdown ==
  /\ a_shutdown = 0
  /\ a_shutdown' = 1
  /\ i2cBus' = "null"
  /\ UNCHANGED <<light, brokerVars, hwaddr, faultVars, canvasVars, storedBrightness, inbox, lastMessage, a_pc, d_shutdown, signalVars, dequeued, playerVars, senderVars, directorVars, ambientVars>>

\* shutdown(): await redis.quit() resolves.
ambient_shutdown_quit ==
  /\ a_shutdown = 1
  /\ a_shutdown' = 2
  /\ UNCHANGED <<light, brokerVars, hwaddr, faultVars, canvasVars, storedBrightness, inbox, lastMessage, i2cBus, a_pc, d_shutdown, signalVars, dequeued, playerVars, senderVars, directorVars, ambientVars>>

\* shutdown(): process.exit(0).
ambient_shutdown_exit ==
  /\ a_shutdown = 2
  /\ a_shutdown' = 3
  /\ a_pc' = "exited"
  /\ UNCHANGED <<light, brokerVars, hwaddr, faultVars, canvasVars, storedBrightness, inbox, lastMessage, i2cBus, d_shutdown, signalVars, dequeued, playerVars, senderVars, directorVars, ambientVars>>

\* SIGKILL at any point of the ambient controller and its restart: the new
\* process has its initial runtime state; the broker keeps its keys.
ambient_kill ==
  /\ sensorReadings # <<>>
  /\ sensorReadings' = <<>>
  /\ currentBrightness' = 1
  /\ ramp' = 0
  /\ UNCHANGED <<brokerVars, hwaddr, faultVars, canvasVars, lifeVars, signalVars, dequeued, playerVars, senderVars, directorVars,
                 player_brightness, channel>>

-----------------------------------------------------------------------------
(* player.ts.  Times are whole milliseconds (the source's seconds times     *)
(* 1000), colours are <<r, g, b>>.                                          *)
PLAYER_FPS == 240

(* bound: play() is not called any more once cycles has reached it *)
MaxCycles == 2

\* the themes of the default movie
DarkFills ==
  << [background |-> [from |-> <<0, 0, 0>>, to |-> <<1, 1, 1>>],
      progress |-> <<255, 215, 0>>, text |-> <<255, 255, 255>>],
     [background |-> [from |-> <<1, 1, 1>>, to |-> <<1, 1, 1>>],
      progress |-> <<79, 255, 79>>, text |-> <<255, 255, 255>>] >>
LightFills ==
  << [background |-> [from |-> <<255, 255, 255>>, to |-> <<240, 240, 240>>],
      progress |-> <<80, 80, 255>>, text |-> <<0, 0, 0>>] >>

\* the screenplay entry of the default movie, at a start offset and with a
\* duration
HelloWorld(start, duration) ==
  [timeline |-> "slideInFromRight",
   start |-> start,
   params |-> [name |-> "Hello World", duration |-> duration,
               text |-> "Hello, World!",
               font |-> [name |-> "Inter", size |-> 28, weight |-> 900],
               fills |-> [themes |-> [dark |-> DarkFills, light |-> LightFills]]]]

\* const movie of direct.ts
movie ==
  [sign |-> [width |-> MOVIE_WIDTH, height |-> MOVIE_HEIGHT, theme |-> "dark"],
   data |-> <<>>,
   screenplay |-> <<HelloWorld(0, 4000)>>]

\* other movies a caller of load() may pass: two scenes with nothing on
\* screen between them, no scene at all, a theme without fills
GapMovie == [movie EXCEPT !.screenplay = <<HelloWorld(0, 1400), HelloWorld(1500, 1400)>>]
EmptyMovie == [movie EXCEPT !.screenplay = <<>>]
NoThemeMovie == [movie EXCEPT !.sign.theme = "neon"]
\* two scenes on screen together, a scene whose timeline function is unknown
OverlapMovie == [movie EXCEPT !.screenplay = <<HelloWorld(0, 1400), HelloWorld(700, 1400)>>]
UnknownTimelineMovie ==
  [movie EXCEPT !.screenplay = <<[HelloWorld(0, 4000) EXCEPT !.timeline = "fadeIn"]>>]
Movies == {movie, GapMovie, EmptyMovie, NoThemeMovie}
OtherMovies == {OverlapMovie, EmptyMovie, UnknownTimelineMovie}

Null == [null |-> TRUE]

\* JSON.parse(JSON.stringify(v)): for a value made of finite numbers,
\* strings, arrays and plain objects (all a Movie and a keyframe hold) an
\* equal value in a new object that shares nothing with v.
JSON_clone(v) == v

\* slideInFromRight: the three descriptors of a scene.
slideInFromRight(sign, params, data, cycles) ==
  LET duration == params.duration
      width == sign.width
      height == sign.height
      themeFills == params.fills.themes[sign.theme]
      fills == themeFills[(cycles % Len(themeFills)) + 1]
      centerX == width \div 2
      centerY == height \div 2
  IN << [name |-> <<params.name, "background">>,
         animation |-> "RectangleAnimation",
         start |-> 0,
         layer |-> 0,
         props |-> [alpha |-> 1, width |-> width, height |-> height, x |-> 0, y |-> 0],
         keyframes |-> << [duration |-> 0, fill |-> fills.background.from],
                          [duration |-> 250, fill |-> fills.background.to],
                          [duration |-> duration - 250, fill |-> fills.background.to] >>],
        [name |-> <<params.name, "progress">>,
         animation |-> "RectangleAnimation",
         start |-> 0,
         layer |-> 1,
         props |-> [alpha |-> 1, x |-> 0, y |-> 0, fill |-> fills.progress, height |-> 1],
         keyframes |-> << [duration |-> 0, width |-> 0],
                          [duration |-> duration, width |-> width] >>],
        [name |-> <<params.name, "text">>,
         animation |-> "TextAnimation",
         start |-> 0,
         layer |-> 2,
         props |-> [alpha |-> 1, fill |-> fills.text, font |-> params.font.name,
                    fontWeight |-> params.font.weight, fontSize |-> params.font.size,
                    textAlign |-> "center", textBaseline |-> "middle",
                    text |-> params.text],
         keyframes |-> << [alpha |-> 1, duration |-> 0, ease |-> "power3.out",
                           x |-> centerX + width, y |-> centerY],
                          [alpha |-> 1, duration |-> 1000, ease |-> "power3.out",
                           x |-> centerX, y |-> centerY],
                          [alpha |-> 1, duration |-> duration - 1400,
                           x |-> centerX, y |-> centerY],
                          [alpha |-> 0, duration |-> 400, ease |-> "power2.in",
                           x |-> centerX, y |-> height + 25] >>] >>

\* const timelines = { slideInFromRight }
timelines == {"slideInFromRight"}

\* build() throws a TypeError when a screenplay entry names no timeline
\* function or the sign's theme has no fills.
build_throws(m) ==
  \E i \in 1..Len(m.screenplay) :
     \/ m.screenplay[i].timeline \notin timelines
     \/ m.sign.theme \notin DOMAIN m.screenplay[i].params.fills.themes
     \/ m.screenplay[i].params.fills.themes[m.sign.theme] = <<>>

\* build(): the BuiltMovie of this._movie and this.cycles.
build(p) ==
  [sign |-> p._movie.sign,
   data |-> p._movie.data,
   timelines |->
     [i \in 1..Len(p._movie.screenplay) |->
        [animations |-> slideInFromRight(p._movie.sign, p._movie.screenplay[i].params,
                                         p._movie.data, p.cycles),
         start |-> p._movie.screenplay[i].start]]]

\* delete target.duration
delete_duration(k) == [a \in DOMAIN k \ {"duration"} |-> k[a]]

\* The length of a keyframes tween: its segments one after the other.
RECURSIVE tween_duration(_)
tween_duration(keyframes) ==
  IF keyframes = <<>> THEN 0
  ELSE Head(keyframes).duration + tween_duration(Tail(keyframes))

\* The Base constructor and sceneTimeline.to(target, state, start) /
\* timeline.add(sceneTimeline, scene.start): an animation with its tween
\* state, and the tween's place on the master timeline.
new_animation(item, scene_start) ==
  [name |-> item.name,
   animation |-> item.animation,
   layer |-> item.layer,
   props |-> item.props,
   state |-> [keyframes |-> item.keyframes],
   target |-> delete_duration(JSON_clone(item.keyframes[1])),
   animating |-> FALSE,
   tween |-> [start |-> scene_start + item.start,
              duration |-> tween_duration(item.keyframes),
              phase |-> "before"]]

\* The animations in the order load() pushes them: scene by scene.
RECURSIVE scene_animations(_, _)
scene_animations(built_timelines, i) ==
  IF i > Len(built_timelines) THEN <<>>
  ELSE [k \in 1..Len(built_timelines[i].animations) |->
          new_animation(built_timelines[i].animations[k], built_timelines[i].start)]
       \o scene_animations(built_timelines, i + 1)

\* Array.prototype.sort((a, b) => a.layer - b.layer), a stable sort.
RECURSIVE insert_by_layer(_, _)
insert_by_layer(sorted, a) ==
  IF sorted = <<>> THEN <<a>>
  ELSE IF sorted[Len(sorted)].layer <= a.layer THEN Append(sorted, a)
  ELSE Append(insert_by_layer(SubSeq(sorted, 1, Len(sorted) - 1), a), sorted[Len(sorted)])

\* mutant of sort_by_layer: the animations stay in the order of the pushes
sort_by_layer_missing(as) == as

RECURSIVE sort_by_layer(_)
sort_by_layer(as) ==
  IF as = <<>> THEN <<>>
  ELSE insert_by_layer(sort_by_layer(SubSeq(as, 1, Len(as) - 1)), as[Len(as)])

\* timeline.duration(): the end of the last tween.
RECURSIVE timeline_duration(_)
timeline_duration(as) ==
  IF as = <<>> THEN 0
  ELSE Max(Head(as).tween.start + Head(as).tween.duration, timeline_duration(Tail(as)))

\* mutant of frames_of: both end points of the timeline are counted
frames_of_inclusive(duration) == (duration * PLAYER_FPS + 999) \div 1000 + 1

\* Math.ceil(this.duration * FPS), the duration in ms
frames_of(duration) == (duration * PLAYER_FPS + 999) \div 1000

\* mutant of load_target: a tween state that exists already is kept
load_target_stale(p, a) ==
  LET old == {i \in 1..Len(p.animations) : p.animations[i].name = a.name}
  IN IF old = {} THEN a.target ELSE p.animations[CHOOSE i \in old : TRUE].target

\* The tween state load() gives an animation: the fresh copy of keyframe 0.
load_target(p, a) == a.target

\* load(movie). this._movie is assigned before build() can throw.
load(p, m) ==
  LET cloned == [p EXCEPT !._movie = JSON_clone(m)]
  IN IF build_throws(cloned._movie) THEN cloned
     ELSE LET built == build(cloned)
              fresh == scene_animations(built.timelines, 1)
              as == sort_by_layer([i \in 1..Len(fresh) |->
                                     [fresh[i] EXCEPT !.target = load_target(p, fresh[i])]])
              duration == timeline_duration(as)
          IN [cloned EXCEPT !.movie = built,
                            !.animations = as,
                            !.timeline = [paused |-> TRUE],
                            !.duration = duration,
                            !.frames = frames_of(duration),
                            !.frame = 0]

\* this.frame / (this.frames - 1 || 1), times this.duration: the seek time
\* as a fraction num / den of a millisecond, den > 0.
seek_time(p) ==
  LET d == IF p.frames - 1 = 0 THEN 1 ELSE p.frames - 1
  IN IF d > 0 THEN [num |-> p.duration * p.frame, den |-> d]
     ELSE [num |-> 0 - p.duration * p.frame, den |-> 0 - d]

\* Where the playhead t is for a tween: not past its start, inside, or at
\* its end or past it.
tween_phase(tw, t) ==
  IF t.num <= tw.start * t.den THEN "before"
  ELSE IF t.num >= (tw.start + tw.duration) * t.den THEN "after"
  ELSE "during"

\* The value the tween engine writes for a numeric attribute at local time
\* local / den ms: the keyframes' values joined segment by segment (the
\* engine's easing curves bend the segments; they are left straight here).
RECURSIVE tween_value(_, _, _, _, _, _)
tween_value(keyframes, value_of, prev, segment_start, local, den) ==
  IF keyframes = <<>> THEN prev
  ELSE LET k == Head(keyframes)
           v == value_of[1]
       IN IF k.duration <= 0
            THEN tween_value(Tail(keyframes), Tail(value_of), v, segment_start, local, den)
          ELSE IF local <= (segment_start + k.duration) * den
            THEN prev + ((v - prev) * (local - segment_start * den)) \div (k.duration * den)
          ELSE tween_value(Tail(keyframes), Tail(value_of), v,
                           segment_start + k.duration, local, den)

\* The tweened attributes: not the duration, not the ease.
tweened(k) == DOMAIN k \ {"duration", "ease"}

\* The tween state after the engine has rendered the tween at playhead t.
render_target(a, t) ==
  LET ks == a.state.keyframes
      end == (a.tween.start + a.tween.duration) * t.den
      clipped == Min(Max(t.num, a.tween.start * t.den), end)
      local == clipped - a.tween.start * t.den
      at(attr, ch) ==
        IF attr = "fill"
          THEN tween_value(ks, [i \in 1..Len(ks) |-> ks[i][attr][ch]],
                           ks[1][attr][ch], 0, local, t.den)
          ELSE tween_value(ks, [i \in 1..Len(ks) |-> ks[i][attr]],
                           ks[1][attr], 0, local, t.den)
  IN [attr \in DOMAIN a.target |->
        IF attr \notin tweened(ks[1]) THEN a.target[attr]
        ELSE IF attr = "fill" THEN <<at(attr, 1), at(attr, 2), at(attr, 3)>>
        ELSE at(attr, 0)]

\* timeline.seek(t, false) for one animation: the tween state is rewritten
\* in place; onStart fires when the tween leaves its start, onComplete when
\* it reaches its end.
seek_animation(a, t) ==
  LET phase == tween_phase(a.tween, t)
      onStart == a.tween.phase = "before" /\ phase # "before"
      onComplete == a.tween.phase # "after" /\ phase = "after"
  IN [a EXCEPT !.target = render_target(a, t),
               !.tween.phase = phase,
               !.animating = IF onComplete THEN FALSE
                             ELSE IF onStart THEN TRUE ELSE @]

seek(p) ==
  [p EXCEPT !.animations =
     [i \in 1..Len(p.animations) |-> seek_animation(p.animations[i], seek_time(p))]]

\* mutant of wraps: the wrap is taken one frame late
wraps_late(p) == p.frame + 1 > p.frames

\* this.frame++; if (this.frame >= this.frames)
wraps(p) == p.frame + 1 >= p.frames

\* animations.forEach: the layers of the animations drawn, in the order of
\* the draw() calls.
forEach_draw(as) ==
  LET active == SelectSeq(as, LAMBDA a : a.animating)
  IN [i \in 1..Len(active) |-> active[i].layer]

\* mutant of play_loop: the loop without its retry cap and with a wrap that
\* does not leave it; it is followed for two iterations past frames
RECURSIVE play_loop_uncapped(_, _)
play_loop_uncapped(p, skippedFrames) ==
  LET q == seek(p)
      layers == forEach_draw(q.animations)
      skipped == skippedFrames + 1
      next == IF wraps(q) THEN [q EXCEPT !.frame = 0, !.cycles = @ + 1]
              ELSE [q EXCEPT !.frame = @ + 1]
  IN IF layers # <<>> \/ skipped >= q.frames + 2
       THEN [player |-> next, ret |-> IF wraps(q) THEN "true" ELSE "undefined",
             sought |-> p.frame, drawn |-> layers, skippedFrames |-> skipped]
     ELSE play_loop_uncapped(next, skipped)

\* The while loop of play(): seek, draw what is animating, count the
\* iteration, advance the frame. sought is the frame of the last seek,
\* drawn the layers drawn on it, skippedFrames the iterations made.
RECURSIVE play_loop(_, _)
play_loop(p, skippedFrames) ==
  LET q == seek(p)
      layers == forEach_draw(q.animations)
      drawn == layers # <<>>
      skipped == skippedFrames + 1
      hasActiveAnimation == drawn \/ skipped >= q.frames
  IN IF wraps(q)
       THEN [player |-> [q EXCEPT !.frame = 0, !.cycles = @ + 1],
             ret |-> "true", sought |-> p.frame, drawn |-> layers,
             skippedFrames |-> skipped]
     ELSE IF hasActiveAnimation
       THEN [player |-> [q EXCEPT !.frame = @ + 1], ret |-> "undefined",
             sought |-> p.frame, drawn |-> layers, skippedFrames |-> skipped]
     ELSE play_loop([q EXCEPT !.frame = @ + 1], skipped)

\* mutant of play: the call leaves this.frame where it found it
play_frame_kept(p) ==
  IF p.movie = Null
    THEN [player |-> p, ret |-> "undefined", sought |-> p.frame, drawn |-> <<>>,
          skippedFrames |-> 0]
  ELSE LET r == play_loop(p, 0)
       IN [r EXCEPT !.player.frame = p.frame]

\* play()
play(p) ==
  IF p.movie = Null
    THEN [player |-> p, ret |-> "undefined", sought |-> p.frame, drawn |-> <<>>,
          skippedFrames |-> 0]
  ELSE play_loop(p, 0)

\* new Player(canvas)
new_Player ==
  [animations |-> <<>>, movie |-> Null, timeline |-> Null, frames |-> 0, frame |-> 0,
   duration |-> 0, cycles |-> 0, brightness |-> 100, _movie |-> Null]

\* What is known of the calls since the last load() that built a movie: how
\* many play() calls, how many of them returned true, the frame of the last
\* seek, the value of cycles at that load, whether a load has thrown since,
\* the last call made, and whether that load replaced tween states that
\* playback had changed, the layers the last play() drew on the frame it
\* left on the canvas, and the iterations of its loop.
NoTrace ==
  [op |-> "new", plays |-> 0, wraps |-> 0, sought |-> 0, cycles |-> 0, threw |-> FALSE,
   replaced |-> FALSE, drawn |-> <<>>, skippedFrames |-> 0]

\* Some tween state of p is no longer the copy of keyframe 0 it was loaded as.
tweened_away(p) ==
  \E i \in 1..Len(p.animations) :
     p.animations[i].target # delete_duration(p.animations[i].state.keyframes[1])

\* BRIGHTNESS_SCALING_FACTOR = 0.7 and DARK_BOOST = 0.1, in tenths
BRIGHTNESS_SCALING_FACTOR == 7
DARK_BOOST == 1

HexDigits == <<"0", "1", "2", "3", "4", "5", "6", "7", "8", "9",
               "a", "b", "c", "d", "e", "f">>
UpperHexDigits == <<"0", "1", "2", "3", "4", "5", "6", "7", "8", "9",
                    "A", "B", "C", "D", "E", "F">>

\* the value of one hexadecimal digit of either case
hex_digit(c) ==
  CHOOSE v \in 0..15 : HexDigits[v + 1] = c \/ UpperHexDigits[v + 1] = c

\* parseInt(hex.substring(i, i + 2), 16) for two hexadecimal digits
parseInt16(hex, i) == 16 * hex_digit(hex[i + 1]) + hex_digit(hex[i + 2])

\* n.toString(16): the hexadecimal digits of n >= 0, lower case
RECURSIVE toString16(_)
toString16(n) ==
  IF n < 16 THEN <<HexDigits[n + 1]>>
  ELSE Append(toString16(n \div 16), HexDigits[(n % 16) + 1])

\* s.padStart(2, "0")
padStart2(s) == IF Len(s) < 2 THEN <<"0">> \o s ELSE s

\* scale + darkBoost as a multiple of 1/3000, with sum = r + g + b:
\* scale = 1 - 0.7 * (1 - brightness / 100),
\* darkBoost = (1 - avg / 100) * 0.1 for avg = sum / 3 below 100, else 0
adjustedScale(sum, brightness) ==
  3 * (1000 - BRIGHTNESS_SCALING_FACTOR * (100 - brightness))
    + (IF sum < 300 THEN (300 - sum) * DARK_BOOST ELSE 0)

\* mutant of adjusted_channel: Math.round without the Math.min
adjusted_channel_uncapped(c, sum, brightness) ==
  (2 * c * adjustedScale(sum, brightness) + 3000) \div 6000

\* Math.min(255, Math.round(c * adjustedScale)); Math.round(x) is
\* floor(x + 0.5)
adjusted_channel(c, sum, brightness) ==
  Min(255, (2 * c * adjustedScale(sum, brightness) + 3000) \div 6000)

\* adjustColorForBrightness for a colour "#rrggbb", as its characters
adjustColorForBrightness(hexColor, brightness) ==
  IF brightness = 100 \/ BRIGHTNESS_SCALING_FACTOR = 0 THEN hexColor
  ELSE LET hex == Tail(hexColor)
           r == parseInt16(hex, 0)
           g == parseInt16(hex, 2)
           b == parseInt16(hex, 4)
           sum == r + g + b
       IN <<"#">> \o padStart2(toString16(adjusted_channel(r, sum, brightness)))
                 \o padStart2(toString16(adjusted_channel(g, sum, brightness)))
                 \o padStart2(toString16(adjusted_channel(b, sum, brightness)))

\* the channel values the model's colours are made of
ChannelValues == {0, 99, 100, 128, 255}

\* the colours drawn: every "#rrggbb" over ChannelValues in lower case, and
\* two in upper case
HexColors ==
  { <<"#">> \o padStart2(toString16(r)) \o padStart2(toString16(g))
            \o padStart2(toString16(b)) : r, g, b \in ChannelValues }
    \cup { <<"#", "F", "F", "A", "0", "0", "0">>, <<"#", "0", "0", "0", "0", "C", "D">> }

\* RectangleAnimation.draw / TextAnimation.draw of an animation whose fill
\* is c: the fill style is set from the fill and the Player's brightness.
Animation_draw(c) ==
  /\ fill' = c
  /\ fillStyle' = adjustColorForBrightness(c, player.brightness)
  /\ UNCHANGED <<brokerVars, hwaddr, faultVars, lifeVars, signalVars, dequeued, playerVars, senderVars,
                 directorVars, ambientVars>>

\* (bound) the play() calls since the last load are counted up to here
MaxPlays == 961

\* The caller calls player.load(m).
Player_load(m) ==
  /\ the_movie' = m
  /\ player' = load(player, m)
  /\ trace' = IF build_throws(m) THEN [trace EXCEPT !.op = "load", !.threw = TRUE]
               ELSE [NoTrace EXCEPT !.op = "load", !.cycles = player.cycles,
                                    !.replaced = tweened_away(player)]
  /\ UNCHANGED <<ret, brokerVars, hwaddr, faultVars, canvasVars, lifeVars, signalVars, dequeued, senderVars, directorVars, ambientVars>>

\* The caller calls player.play().
Player_play ==
  /\ player.cycles < MaxCycles
  /\ LET r == play(player)
     IN /\ player' = r.player
        /\ ret' = r.ret
        /\ trace' = [trace EXCEPT !.op = "play",
                                  !.plays = Min(@ + 1, MaxPlays),
                                  !.wraps = IF r.ret = "true" THEN @ + 1 ELSE @,
                                  !.sought = r.sought,
                                  !.drawn = r.drawn,
                                  !.skippedFrames = r.skippedFrames]
  /\ UNCHANGED <<the_movie, brokerVars, hwaddr, faultVars, canvasVars, lifeVars, signalVars, dequeued, senderVars, directorVars, ambientVars>>

\* The caller calls player.reload(), after a load.
Player_reload ==
  /\ player._movie # Null
  /\ player' = load(player, player._movie)
  /\ trace' = IF build_throws(player._movie) THEN [trace EXCEPT !.op = "reload", !.threw = TRUE]
               ELSE [NoTrace EXCEPT !.op = "reload", !.cycles = player.cycles,
                                    !.replaced = tweened_away(player)]
  /\ UNCHANGED <<the_movie, ret, brokerVars, hwaddr, faultVars, canvasVars, lifeVars, signalVars, dequeued, senderVars, directorVars, ambientVars>>

PlayerNext ==
  \/ \E m \in Movies : Player_load(m)
  \/ Player_play
  \/ Player_reload

-----------------------------------------------------------------------------
(* direct.ts: the brightness the Director hands to the Player *)

\* what other clients may publish on player:brightness:channel or store
\* under player:brightness: decimal integers, the empty string
Messages == {<<"1">>, <<"5", "0">>, <<"1", "0", "0">>, <<"2", "5", "0">>, <<"0">>, <<>>}

\* Number(message) for a string of decimal digits; Number("") is 0.
Number(message) == atoi_digits(message, 0)

\* if (storedBrightness): null and the empty string are falsy.
truthy(reply) == reply.type = "STRING" /\ reply.str # <<>>

\* The start of the Director's main function: connect, subscribe, read
\* player:brightness, load the default movie.
director_startup ==
  /\ d_pc = "connect"
  /\ storedBrightness' = player_brightness
  /\ LET p == IF truthy(storedBrightness')
                THEN [player EXCEPT !.brightness = Number(storedBrightness'.str)]
                ELSE player
     IN player' = load(p, movie)
  /\ the_movie' = movie
  /\ trace' = [NoTrace EXCEPT !.op = "load", !.cycles = player.cycles]
  /\ d_pc' = "play"
  /\ UNCHANGED <<light, ret, brokerVars, hwaddr, faultVars, canvasVars, inbox, lastMessage, i2cBus, a_pc, d_shutdown, a_shutdown, signalVars, dequeued, senderVars, pushed, d_sleep,
                 rendered, ambientVars>>

\* subscriber.on("message"): the last message published on
\* player:brightness:channel is delivered.
subscriber_on_message ==
  /\ d_pc # "connect"
  /\ channel # <<>>
  /\ player.brightness # Number(channel)
  /\ player' = [player EXCEPT !.brightness = Number(channel)]
  /\ UNCHANGED <<the_movie, ret, trace, brokerVars, hwaddr, faultVars, canvasVars, lifeVars, signalVars, dequeued, senderVars,
                 directorVars, ambientVars>>

\* The start of the Director's main function, await by await: the two
\* connections are up and the subscription is confirmed; GET player:brightness
\* is on its way.
director_subscribe ==
  /\ d_pc = "connect"
  /\ d_pc' = "get"
  /\ UNCHANGED <<playerVars, brokerVars, hwaddr, faultVars, canvasVars, lifeVars, signalVars, dequeued, senderVars, pushed, d_sleep,
                 rendered, ambientVars>>

\* The broker serves the GET; the reply is on its way to the Director.
director_get ==
  /\ d_pc = "get"
  /\ storedBrightness' = player_brightness
  /\ d_pc' = "got"
  /\ UNCHANGED <<light, playerVars, brokerVars, hwaddr, faultVars, canvasVars, inbox, lastMessage, i2cBus, a_pc, d_shutdown, a_shutdown, signalVars, dequeued, senderVars, pushed, d_sleep,
                 rendered, ambientVars>>

\* The reply has arrived: if (storedBrightness) player.brightness =
\* Number(storedBrightness); player.load(movie); the loop starts.
director_load ==
  /\ d_pc = "got"
  /\ LET p == IF truthy(storedBrightness)
                THEN [player EXCEPT !.brightness = Number(storedBrightness.str)]
                ELSE player
     IN player' = load(p, movie)
  /\ the_movie' = movie
  /\ trace' = [NoTrace EXCEPT !.op = "load", !.cycles = player.cycles]
  /\ d_pc' = "play"
  /\ UNCHANGED <<ret, brokerVars, hwaddr, faultVars, canvasVars, lifeVars, signalVars, dequeued, senderVars, pushed, d_sleep,
                 rendered, ambientVars>>

\* subscriber.on("message") for the oldest message the broker has sent to
\* the subscriber connection.
subscriber_on_inbox ==
  /\ inbox # <<>>
  /\ player' = [player EXCEPT !.brightness = Number(Head(inbox))]
  /\ lastMessage' = Head(inbox)
  /\ inbox' = Tail(inbox)
  /\ UNCHANGED <<light, the_movie, ret, trace, brokerVars, hwaddr, faultVars, canvasVars, storedBrightness, i2cBus, a_pc, d_shutdown, a_shutdown, signalVars, dequeued, senderVars,
                 directorVars, ambientVars>>

(* bound: the messages waiting on the subscriber connection *)
MaxInbox == 2

\* what the ambient controller publishes in the startup scenario
Updates == {<<"6">>, <<"1", "1">>}

\* updateBrightness' Promise.all, the PUBLISH as the broker serves it: the
\* message goes to the connections subscribed at that moment.
ambient_publish(message) ==
  /\ channel # message
  /\ channel = <<>> \/ player_brightness = StringReply(channel)
  /\ Len(inbox) < MaxInbox
  /\ channel' = message
  /\ inbox' = IF d_pc = "connect" THEN inbox ELSE Append(inbox, message)
  /\ UNCHANGED <<light, brokerVars, hwaddr, faultVars, canvasVars, storedBrightness, lastMessage, i2cBus, a_pc, d_shutdown, a_shutdown, signalVars, dequeued, playerVars, senderVars, directorVars,
                 sensorReadings, currentBrightness, player_brightness, ramp>>

\* updateBrightness' Promise.all, the SET as the broker serves it.
ambient_set ==
  /\ channel # <<>>
  /\ player_brightness # StringReply(channel)
  /\ player_brightness' = StringReply(channel)
  /\ UNCHANGED <<brokerVars, hwaddr, faultVars, canvasVars, lifeVars, signalVars, dequeued, playerVars, senderVars, directorVars,
                 sensorReadings, currentBrightness, channel, ramp>>

\* Another client publishes on player:brightness:channel.
Publish(message) ==
  /\ channel # message
  /\ channel' = message
  /\ UNCHANGED <<brokerVars, hwaddr, faultVars, canvasVars, lifeVars, signalVars, dequeued, playerVars, senderVars, directorVars,
                 sensorReadings, currentBrightness, player_brightness, ramp>>

\* Another client sets player:brightness.
SetPlayerBrightness(s) ==
  /\ player_brightness # StringReply(s)
  /\ player_brightness' = StringReply(s)
  /\ UNCHANGED <<brokerVars, hwaddr, faultVars, canvasVars, lifeVars, signalVars, dequeued, playerVars, senderVars, directorVars,
                 sensorReadings, currentBrightness, channel, ramp>>

(* bound: the Director is killed at most this many times *)
MaxRestarts == 1

\* SIGKILL at any point of the Director and its restart by the supervisor:
\* the new process has a new Player and no locals; the broker keeps its keys.
director_kill ==
  /\ d_pc # "connect"
  /\ restarts < MaxRestarts
  /\ restarts' = restarts + 1
  /\ d_pc' = "connect"
  /\ pushed' = 0
  /\ d_sleep' = 0
  /\ rendered' = 0
  /\ player' = new_Player
  /\ the_movie' = Null
  /\ ret' = "none"
  /\ trace' = NoTrace
  /\ UNCHANGED <<brokerVars, hwaddr, faults, socket_fd, rc_err, canvasVars, lifeVars, signalVars, dequeued, senderVars, ambientVars>>

-----------------------------------------------------------------------------
NoPacket == [ether_shost |-> <<>>, ether_dhost |-> <<>>, ether_type |-> <<>>, data |-> <<>>]

InitSender ==
  /\ pc = "start"
  /\ row = 0
  /\ src = 0
  /\ rr_blpop = NilReply
  /\ rr_brightness = NilReply
  /\ payload = <<>>
  /\ current_brightness = 0
  /\ frame_data = [i \in 1..FRAME_DATA_LENGTH |-> 0]
  /\ src_mac = [k \in 1..8 |-> 0]
  /\ elapsed = 0
  /\ sent = NoPacket
  /\ wire = <<>>

InitDirector ==
  /\ d_pc = "play"
  /\ pushed = 0
  /\ d_sleep = 0
  /\ rendered = 0

InitAmbient ==
  /\ sensorReadings = <<>>
  /\ currentBrightness = 1
  /\ player_brightness = NilReply
  /\ channel = <<>>
  /\ ramp = 0

\* before any signal: running = 1, nothing acquired
InitSignal ==
  /\ running = TRUE
  /\ resources = <<>>
  /\ released = <<>>
  /\ exit_code = -1
  /\ late_polls = 0

InitPlayer ==
  /\ the_movie = Null
  /\ player = new_Player
  /\ ret = "none"
  /\ trace = NoTrace

\* nothing drawn yet
InitCanvas ==
  /\ fill = <<"#", "0", "0", "0", "0", "0", "0">>
  /\ fillStyle = <<>>

\* the Director has read nothing, the bus is not open, no signal so far
InitLife ==
  /\ storedBrightness = NilReply
  /\ inbox = <<>>
  /\ lastMessage = <<>>
  /\ i2cBus = "null"
  /\ a_pc = "loop"
  /\ d_shutdown = 0
  /\ a_shutdown = 0
  /\ light = [raw |-> 0, changes |-> 0]

\* nothing fails, nothing opened yet, no restart so far
InitFaults ==
  /\ faults = {}
  /\ socket_fd = -1
  /\ rc_err = FALSE
  /\ restarts = 0

Init ==
  /\ InitFaults
  /\ InitCanvas
  /\ InitLife
  /\ queue = <<>>
  /\ sender_brightness = NilReply
  /\ dequeued = -1
  /\ hwaddr \in HwAddrs
  /\ InitSender
  /\ InitSignal
  /\ InitDirector
  /\ InitAmbient
  /\ InitPlayer

\* one NIC, for the specifications that are not about the source MAC
InitOneNic == Init /\ hwaddr = <<2, 0, 0, 0, 0, 1>>

\* The Director process has just started; the broker holds what earlier runs
\* left in it.
InitConnect ==
  /\ InitFaults
  /\ InitCanvas
  /\ InitLife
  /\ queue = <<>>
  /\ sender_brightness = NilReply
  /\ dequeued = -1
  /\ hwaddr = <<2, 0, 0, 0, 0, 1>>
  /\ InitSender
  /\ InitSignal
  /\ d_pc = "connect" /\ pushed = 0 /\ d_sleep = 0 /\ rendered = 0
  /\ InitAmbient
  /\ InitPlayer

\* The Sender with frames of both kinds arriving and time passing.
Next ==
  \/ SenderNext
  \/ \E e \in ValidFrames \cup ShortFrames : Enqueue(e)
  \/ Tick

Spec == Init /\ [][Next]_vars

\* The same, with the Sender process running on: none of its steps waits
\* for another process (a BLPOP times out, a sleep ends, the spin reaches the
\* deadline).
SpecRunning == Init /\ [][Next]_vars /\ WF_vars(SenderNext)

\* The Sender with sender:brightness being set by other clients.
NextBrightness ==
  \/ SenderNext
  \/ \E e \in {[len |-> ExpectedLen, seed |-> 1]} : Enqueue(e)
  \/ \E s \in BrightnessStrings : SetSenderBrightness(s)
  \/ Tick

SpecBrightness == InitOneNic /\ [][NextBrightness]_vars

\* The Director with the Sender popping frames at any time.
NextDirector == DirectorNext \/ blpop

SpecDirector == InitOneNic /\ [][NextDirector]_vars

\* The Director with a Sender that never pops; the Director's loop keeps
\* running (its timers fire, the broker answers).
SpecStalled == InitOneNic /\ [][DirectorNext]_vars /\ WF_vars(DirectorNext)

\* The ambient controller with any sequence of sensor readings.
SpecAmbient == InitOneNic /\ [][AmbientNext]_vars

\* The Sender with a signal arriving at any moment; the process runs on.
NextSignal ==
  \/ SenderNext
  \/ main_shutdown
  \/ sig_handler
  \/ \E e \in ValidFrames : Enqueue(e)

SpecSignal ==
  InitOneNic /\ [][NextSignal]_vars /\ WF_vars(SenderNext) /\ WF_vars(main_shutdown)

\* The Director taking its brightness from the broker, with any client
\* writing the key and publishing on the channel.
NextConsume ==
  \/ director_startup
  \/ subscriber_on_message
  \/ \E m \in Messages : Publish(m)
  \/ \E m \in Messages : SetPlayerBrightness(m)

SpecConsume == InitConnect /\ [][NextConsume]_vars

\* The same with the movies of OtherMovies.
PlayerNextOther ==
  \/ \E m \in OtherMovies : Player_load(m)
  \/ Player_play
  \/ Player_reload

SpecPlayerOther == InitOneNic /\ [][PlayerNextOther]_vars

\* Animations of any fill drawn at any brightness of 1..100.
InitDraw ==
  /\ InitFaults
  /\ queue = <<>>
  /\ sender_brightness = NilReply
  /\ dequeued = -1
  /\ hwaddr = <<2, 0, 0, 0, 0, 1>>
  /\ InitSender
  /\ InitSignal
  /\ InitDirector
  /\ InitAmbient
  /\ the_movie = Null
  /\ \E b \in 1..100 : player = [new_Player EXCEPT !.brightness = b]
  /\ ret = "none"
  /\ trace = NoTrace
  /\ InitCanvas
  /\ InitLife

NextDraw == \E c \in HexColors : Animation_draw(c)

SpecDraw == InitDraw /\ [][NextDraw]_vars

\* The ambient controller killed and restarted at any point.
NextAmbientKill == AmbientNext \/ ambient_kill

SpecAmbientKill == InitOneNic /\ [][NextAmbientKill]_vars

\* The Director killed and restarted at any point, with a Sender that never
\* pops.
NextKill == DirectorNext \/ director_kill \/ director_startup

SpecKill == InitConnect /\ [][NextKill]_vars

\* A Player whose caller loads movies, plays and reloads in any order.
SpecPlayer == InitOneNic /\ [][PlayerNext]_vars

-----------------------------------------------------------------------------
(* Properties of the Sender *)

IsRowPacket(p) == p.ether_type = <<85, 0>>
IsCommitPacket(p) == p.ether_type = <<1, 7>>
ValidReply(r) == r.type = "ARRAY" /\ r.len = 81920

\* The packets since the last commit are a prefix of one burst: rows 0..63
\* of one 81,920-byte frame in ascending order, then one commit; while a
\* frame is being processed they are its rows so far, and the Sender polls
\* only with no burst open.
C1_Burst ==
  /\ Len(wire) <= 65
  /\ \A i \in 1..Len(wire) :
       /\ ValidReply(wire[i].frame)
       /\ wire[i].frame = wire[1].frame
       /\ i <= 64 => IsRowPacket(wire[i]) /\ wire[i].row = i - 1
       /\ i = 65 => IsCommitPacket(wire[i])
  /\ pc = "rows" /\ row > 0 => Len(wire) = row /\ wire[1].frame = rr_blpop
  /\ pc = "wait" => Len(wire) = 64 /\ wire[1].frame = rr_blpop
  /\ pc \in {"poll", "backoff"} => Len(wire) \in {0, 65}

\* A poll that dequeues an 81,920-byte frame starts its burst at row 0.
C1_Dequeue ==
  pc = "poll" /\ pc' # "poll" /\ queue # <<>> /\ Head(queue).len = 81920
    => /\ pc' = "rows" /\ row' = 0 /\ src' = 0
       /\ rr_blpop' = ArrayReply(Head(queue))
       /\ wire' = wire

\* C1: for every dequeued frame of 81,920 bytes the Sender emits exactly 64
\* row packets (EtherType 0x5500), rows 0..63 in ascending order, followed by
\* exactly one commit packet (EtherType 0x0107), with no packet of another
\* frame in between.
C1_RowsThenCommit ==
  /\ []C1_Burst
  /\ [][C1_Dequeue]_vars
  /\ pc = "rows" ~> (pc = "poll" /\ Len(wire) = 65 /\ wire[1].frame = rr_blpop)

C1_Witness == Len(wire) = 65 /\ pc = "poll" /\ wire[1].frame.seed = 2

\* C2: the pixel bytes of a row packet are, for each pixel i of the frame in
\* row-major order, (frame[4i+2], frame[4i+1], frame[4i]); the payload is
\* exactly the header and these bytes.
C2_PixelOrder ==
  IsRowPacket(sent) =>
    LET r == Len(wire) - 1
    IN /\ Len(sent.data) = 7 + 320 * 3
       /\ \A p \in 0..319 :
            LET i == r * 320 + p
            IN /\ sent.data[7 + 3 * p + 1] = FrameByte(rr_blpop, 4 * i + 2)
               /\ sent.data[7 + 3 * p + 2] = FrameByte(rr_blpop, 4 * i + 1)
               /\ sent.data[7 + 3 * p + 3] = FrameByte(rr_blpop, 4 * i)

\* a later row of a second frame, written over the bytes of earlier rows
C2_Witness ==
  /\ IsRowPacket(sent) /\ Len(wire) = 64 /\ rr_blpop.seed = 2
  /\ frame_data[23] = 5

\* C4: a row packet's header is {row, 0, 0, 0x01, 0x40, 0x08, 0x88}, row in
\* 0..63 being the index of the row whose pixels follow.
C4_RowHeader ==
  IsRowPacket(sent) =>
    LET r == sent.data[1]
    IN /\ r \in 0..63
       /\ r = Len(wire) - 1
       /\ SubSeq(sent.data, 1, 7) = <<r, 0, 0, 1, 64, 8, 136>>
       /\ sent.data[8] = FrameByte(rr_blpop, 4 * (r * 320) + 2)

C4_Witness == IsRowPacket(sent) /\ sent.data[1] = 63

\* C5: the source MAC of every emitted Ethernet frame is the NIC's hardware
\* address, byte for byte.
C5_SourceMac == sent # NoPacket => sent.ether_shost = hwaddr

\* The poll that dequeues an element of another length, and the back-off
\* after it.
C6_Drop ==
  /\ pc = "poll" /\ pc' # "poll" /\ queue # <<>> /\ Head(queue).len # 81920
       => /\ pc' = "backoff"
          /\ queue' = Tail(queue)
          /\ sent' = sent /\ wire' = wire /\ elapsed' = elapsed
  /\ pc = "backoff" /\ pc' # "backoff"
       => pc' = "poll" /\ sent' = sent /\ wire' = wire /\ elapsed' = elapsed

\* C6: a dequeued element whose length is not 81,920 is discarded: no row
\* and no commit packet is emitted for it, the frame-start timestamp stays
\* as it is, and the Sender goes on to the next poll.
C6_DropMalformed == [][C6_Drop]_vars

C6_Witness ==
  /\ pc = "poll" /\ rr_blpop.type = "ARRAY" /\ rr_blpop.len # 81920
  /\ Len(wire) = 65 /\ elapsed > 0

CommitPayload(b) ==
  [i \in 1..98 |-> IF i - 1 \in {21, 24, 25, 26} THEN b
                   ELSE IF i - 1 = 22 THEN 5 ELSE 0]

\* The integer each sender:brightness string of the model stands for.
FetchedValue(str) ==
  CASE str = <<"2", "5", "5">> -> 255
    [] str = <<"4", "2">> -> 42
    [] str = <<"2", "5", "6">> -> 256
    [] str = <<"-", "1">> -> -1
    [] str = <<"7", "x">> -> 7

\* The step that leaves the wait loop emits the commit packet.
C3_Commit ==
  pc = "wait" /\ pc' # "wait"
    => /\ IsCommitPacket(sent')
       /\ Len(sent'.data) = 98
       /\ rr_brightness.type = "STRING" /\ FetchedValue(rr_brightness.str) \in 0..255
            => sent'.data = CommitPayload(FetchedValue(rr_brightness.str))

\* C3: the commit packet of a frame has 98 bytes: the brightness b in 0..255
\* fetched in the poll that dequeued the frame at offsets 21, 24, 25 and 26,
\* the value 5 at offset 22 and 0 everywhere else, whatever frames and
\* brightness values came before.
C3_CommitBrightness == [][C3_Commit]_vars

\* a commit with 42 after an earlier commit with another brightness
C3_Witness ==
  /\ IsCommitPacket(sent) /\ sent.data[22] = 42
  /\ rr_brightness = StringReply(<<"4", "2">>)

-----------------------------------------------------------------------------
(* Properties of the Director *)

C8_Cycle ==
  /\ Len(queue') = 240 /\ Len(queue) # 240 => d_pc' = "sender_wait" /\ d_sleep' = 5
  /\ d_pc = "sender_wait" /\ d_pc' # d_pc
       => d_pc' = "flush" /\ pushed' = 240 /\ queue' = queue
  /\ d_pc = "flush" /\ d_pc' # d_pc
       => d_pc' = "backoff" /\ queue' = <<>> /\ d_sleep' = 100
  /\ d_pc = "backoff" /\ d_pc' # d_pc => d_pc' = "play" /\ queue' = <<>>
  /\ d_pc # "backoff" /\ d_pc' = "play" => Len(queue') < 240

\* C8: with a Sender that never pops, each time the list reaches fps the
\* Director waits 5 ms, re-reads the length, empties the list and sleeps
\* 100 ms before it produces again, and this goes on forever: the list is
\* filled and emptied infinitely often.
C8_FlushForever ==
  /\ [][C8_Cycle]_vars
  /\ []<>(Len(queue) = 240)
  /\ []<>(queue = <<>> /\ d_pc = "backoff" /\ d_sleep = 100)

C8_Witness == queue = <<>> /\ d_pc = "backoff" /\ d_sleep = 100 /\ pushed = 240

-----------------------------------------------------------------------------
(* Properties of the ambient controller *)

\* The decimal strings of 1 .. 100, the values that may be published.
Decimal(v) ==
  IF v < 10 THEN <<Digits[v + 1]>>
  ELSE IF v < 100 THEN <<Digits[(v \div 10) + 1], Digits[(v % 10) + 1]>>
  ELSE <<"1", "0", "0">>

\* A step that publishes.
C9_Publish ==
  player_brightness' # player_brightness \/ channel' # channel
    => \E v \in 1..100 :
         /\ channel' = Decimal(v)
         /\ player_brightness' = StringReply(Decimal(v))
         /\ v - currentBrightness <= 5
         /\ currentBrightness - v <= 5
         /\ currentBrightness' = v

\* C9: every value the controller publishes lies in 1..100 and is at most 5
\* away from the controller's brightness of the cycle before.
C9_RateLimit == [][C9_Publish]_vars

\* a published step down of 5 from the top
C9_Witness == channel = <<"9", "5">> /\ Len(sensorReadings) = 10

\* C10: from current = 1 and an empty window, the readings lux 0, 10000,
\* 10000, ... give current = 1, 6, 11, ..., 96, 100 in consecutive cycles
\* and 100 from then on.
C10_Ramp ==
  ramp >= 1 => currentBrightness = (IF ramp <= 20 THEN 1 + 5 * (ramp - 1) ELSE 100)

C10_Witness == ramp = 22 /\ currentBrightness = 100

-----------------------------------------------------------------------------
(* player.ts *)

\* A step that is a call of play().
PlayCall == trace'.op = "play"

\* The statement of C11 as it stands, for every movie: play() returns true
\* exactly on the calls in which the frame goes from frames - 1 back to 0,
\* cycles grows by one on those calls and stays on every other call.
C11_WrapAnyMovie ==
  [][PlayCall =>
       /\ ret' = "true" <=> (trace'.sought = player.frames - 1 /\ player'.frame = 0)
       /\ player'.cycles = player.cycles + (IF ret' = "true" THEN 1 ELSE 0)]_vars

\* C11: with a movie of at least one frame, play() returns the wrap
\* indicator exactly on the calls in which the frame position goes from
\* frames - 1 back to 0, on each such call cycles grows by exactly 1, and on
\* every other call no wrap is signalled and cycles is unchanged; with a
\* movie of no frames every call signals a wrap and cycles grows by 1.
C11_Wrap ==
  [][PlayCall =>
       /\ ret' \in {"true", "undefined"}
       /\ player.frames >= 1 =>
            (ret' = "true" <=> (trace'.sought = player.frames - 1 /\ player'.frame = 0))
       /\ player.frames = 0 /\ player.movie # Null => ret' = "true" /\ player'.frame = 0
       /\ player.movie = Null => ret' = "undefined"
       /\ player'.cycles = player.cycles + (IF ret' = "true" THEN 1 ELSE 0)]_vars

\* a wrap reached through the frames of a gap, and a call that did not wrap
C11_Witness ==
  /\ player._movie = GapMovie /\ player.frames = 696 /\ player.cycles = 1
  /\ ret = "undefined" /\ trace.wraps = 1 /\ trace.op = "play"

\* C12: after loading the default movie (frames = 960) into a new Player,
\* exactly 960 calls of play() give exactly one wrap indicator and leave
\* cycles = 1, and nothing has thrown.
C12_OneCycle ==
  player._movie = movie /\ trace.plays = 960
    => /\ player.frames = 960
       /\ trace.wraps = 1
       /\ player.cycles = trace.cycles + 1
       /\ ~trace.threw

C12_Witness ==
  player._movie = movie /\ trace.plays = 960 /\ trace.cycles = 0 /\ player.cycles = 1

\* C13: reload() after load(m) and any number of play() calls leaves every
\* animation's tween state equal to the tweened attributes of its keyframe 0
\* without the duration, and frame = 0; the caller's movie object changes
\* in no call (it is replaced only by the caller passing another one).
C13_Reload ==
  /\ [][trace'.op = "reload" /\ ~build_throws(player._movie) =>
          /\ \A i \in 1..Len(player'.animations) :
                player'.animations[i].target =
                  delete_duration(player'.animations[i].state.keyframes[1])
          /\ Len(player'.animations) = 3 * Len(player._movie.screenplay)
          /\ player'.frame = 0]_vars
  /\ [][the_movie' # the_movie => trace'.op = "load"]_vars

\* a reload of the two-scene movie that replaced tween states playback had
\* changed
C13_Witness ==
  /\ trace.op = "reload" /\ trace.replaced /\ player._movie = GapMovie
  /\ player.cycles = 0 /\ player.animations[1].target = [fill |-> <<0, 0, 0>>]

-----------------------------------------------------------------------------
(* brightness, from the broker to the wire and the Renderer *)

\* set_brightness' clamp as the claim has it
Clamped(v) == IF v < 0 THEN 0 ELSE IF v > 255 THEN 255 ELSE v

\* C14: a sender:brightness value read outside [0,255] is clamped into
\* [0,255] (below 0 to 0, above 255 to 255) and the clamped value is what
\* the next commit packet carries.
C14_ClampOnRead ==
  [][pc = "wait" /\ pc' # "wait" /\ rr_brightness.type = "STRING"
       /\ FetchedValue(rr_brightness.str) \notin 0..255
     => sent'.data = CommitPayload(Clamped(FetchedValue(rr_brightness.str)))]_vars

\* C15: whatever the Director reads from player:brightness at startup or
\* receives on player:brightness:channel, the Player's brightness is within
\* [1,100] in every reachable state.
C15_RendererBrightness == player.brightness \in 1..100

\* C16: in every cycle in which the ambient controller publishes a new
\* brightness it also writes a value in [0,255] to sender:brightness.
C16_BothScales ==
  [][channel' # channel =>
       /\ sender_brightness'.type = "STRING"
       /\ atoi(sender_brightness'.str) \in 0..255]_vars

-----------------------------------------------------------------------------
(* the queue, in order *)

\* A step in which a BLPOP takes an element.
Dequeue == Len(queue') = Len(queue) - 1 /\ d_pc' = d_pc

\* tag of the frame appended after the frame of tag t
NextTag(t) == (t + 1) % FrameTags

\* C17: the Transport dequeues frames in the order in which the Director
\* appended them and none twice, with appends, flushes and pops interleaved
\* in any way: the list holds the frames in the order of their rendering up
\* to the last one rendered, a dequeue takes the oldest of them off the
\* list, and between two flushes each dequeued frame is the one rendered
\* right after the frame dequeued before it.
C17_Fifo ==
  /\ [](/\ \A i \in 1..(Len(queue) - 1) :
              queue[i + 1].seed - 1 = NextTag(queue[i].seed - 1)
        /\ queue # <<>> => NextTag(queue[Len(queue)].seed - 1) = rendered)
  /\ [][Dequeue =>
          /\ dequeued' = Head(queue).seed - 1
          /\ queue' = Tail(queue)
          /\ dequeued # -1 => dequeued' = NextTag(dequeued)]_vars

\* two dequeues in a row with the Director appending in between
C17_Witness == dequeued = 1 /\ Len(queue) = 3 /\ pushed = 4 /\ rendered = 2

-----------------------------------------------------------------------------
(* the Sender's cadence and its idle and shutdown paths *)

\* C18: a commit packet is emitted only with at least 1/240 s elapsed since
\* the frame-start timestamp, the timestamp is taken anew at each commit and
\* at no other moment of the loop, so that two commits in a row are never
\* less than 1/240 s apart.
C18_Cadence ==
  /\ [][IsCommitPacket(sent') /\ wire' # wire =>
          pc = "wait" /\ elapsed * 240 >= 1000000000 /\ elapsed' = 0]_vars
  /\ [][pc # "start" /\ elapsed' < elapsed => IsCommitPacket(sent') /\ wire' # wire]_vars

\* a commit emitted at the deadline, after a sleep that woke early
C18_Witness ==
  IsCommitPacket(sent) /\ elapsed = 0 /\ Len(wire) = 65 /\ pc = "poll"

\* C19: a queue poll that times out with no frame emits no row and no commit
\* packet and leaves the frame-start timestamp as it is; the Sender sleeps
\* 100 microseconds and polls again; with the queue still empty nothing is
\* emitted.
C19_Timeout ==
  /\ [][pc = "poll" /\ queue = <<>> /\ pc' # "poll" =>
          /\ pc' = "backoff" /\ rr_blpop' = NilReply
          /\ sent' = sent /\ wire' = wire
          /\ elapsed' >= elapsed]_vars
  /\ [][pc = "backoff" /\ pc' # "backoff" =>
          pc' = "poll" /\ sent' = sent /\ wire' = wire /\ elapsed' = elapsed]_vars
  /\ [][(pc \in {"poll", "backoff"} /\ queue = <<>>) => sent' = sent /\ wire' = wire]_vars

\* a second timeout in a row, after a frame went out
C19_Witness ==
  pc = "backoff" /\ rr_blpop = NilReply /\ queue = <<>> /\ Len(wire) = 65 /\ elapsed > 0

\* C20: after SIGINT or SIGTERM the Sender completes its iteration (rows
\* already emitted are followed by their commit), leaves the loop within one
\* further queue poll, releases the row buffer, the socket and the broker
\* connection, the reverse of the order it acquired them in, and exits with
\* code 0.
C20_Shutdown ==
  /\ [](late_polls <= 1)
  /\ [](pc = "exited" =>
          /\ exit_code = 0
          /\ resources = <<"redis", "socket", "payload">>
          /\ released = [i \in 1..Len(resources) |-> resources[Len(resources) + 1 - i]]
          /\ Len(wire) \in {0, 65})
  /\ [](exit_code # -1 => pc = "exited" /\ ~running)
  /\ (~running ~> pc = "exited")

\* the signal arrived with the rows of a frame on the wire; the commit
\* followed and the process is gone
C20_Witness ==
  pc = "exited" /\ late_polls = 1 /\ Len(wire) = 65 /\ wire[1].frame.seed = 2

-----------------------------------------------------------------------------
(* kill and restart *)

\* C21: with the Director killed at any point of its main loop and started
\* again, player:frames never holds more than fps elements, the Sender being
\* stalled.
C21_KillSafe == d_pc \in {"connect", "play", "sender_wait", "flush", "backoff"} => Len(queue) <= director_fps

\* C22: with the ambient controller killed and restarted at any point, every
\* value it publishes, the first one after a restart included, is at most 5
\* away from the value last persisted under player:brightness.
C22_RestartRateLimit ==
  [][(channel' # channel /\ player_brightness.type = "STRING") =>
       /\ atoi(channel') - atoi(player_brightness.str) <= 5
       /\ atoi(player_brightness.str) - atoi(channel') <= 5]_vars

-----------------------------------------------------------------------------
(* brightness compensation *)

\* the three channels of a colour "#rrggbb"
Channels(c) == <<parseInt16(Tail(c), 0), parseInt16(Tail(c), 2), parseInt16(Tail(c), 4)>>

\* C23: at brightness 100 the adjusted colour is the input colour exactly,
\* for every input colour; at every brightness of 1..100 the adjusted colour
\* is "#" and three two-digit channels, each an integer in 0..255.
C23_Adjusted ==
  fillStyle # <<>> =>
    /\ player.brightness = 100 => fillStyle = fill
    /\ Len(fillStyle) = 7 /\ fillStyle[1] = "#"
    /\ \A i \in 2..7 : \E v \in 1..16 : fillStyle[i] \in {HexDigits[v], UpperHexDigits[v]}
    /\ \A i \in 1..3 : Channels(fillStyle)[i] \in 0..255

\* a dark red at brightness 99, raised to the cap by the dark boost
C23_Witness ==
  /\ fill = <<"#", "f", "f", "0", "0", "0", "0">> /\ player.brightness = 99
  /\ fillStyle = <<"#", "f", "f", "0", "0", "0", "0">>

-----------------------------------------------------------------------------
(* drawing *)

\* C24: after load() the animations are held in non-decreasing layer order
\* and every play() call draws the active ones in that order, whatever the
\* scenes of the movie and their order.
C24_LayerOrder ==
  /\ \A i \in 1..(Len(player.animations) - 1) :
        player.animations[i].layer <= player.animations[i + 1].layer
  /\ \A i \in 1..(Len(trace.drawn) - 1) : trace.drawn[i] <= trace.drawn[i + 1]

\* both scenes of the overlapping movie on screen
C24_Witness ==
  trace.op = "play" /\ player._movie = OverlapMovie /\ trace.drawn = <<0, 0, 1, 1, 2, 2>>

\* C25: every play() call returns, true or undefined, after at most
\* max(frames, 1) iterations of its loop, each iteration trying the frame
\* after the one before; with no movie loaded it returns at once.
C25_Terminates ==
  [][PlayCall =>
       /\ ret' \in {"true", "undefined"}
       /\ trace'.skippedFrames <= Max(player.frames, 1)
       /\ player.movie = Null => trace'.skippedFrames = 0
       /\ player.movie # Null =>
            /\ trace'.skippedFrames >= 1
            /\ trace'.sought = player.frame + trace'.skippedFrames - 1]_vars

\* a call on the movie of no frames: one iteration and a wrap
C25_Witness ==
  /\ trace.op = "play" /\ player._movie = EmptyMovie /\ player.frames = 0
  /\ trace.skippedFrames = 1 /\ ret = "true"

\* C26: a play() call that leaves a frame on which nothing was drawn has
\* tried frames consecutive frames; any other call leaves a frame with at
\* least one animation drawn.
C26_NoBlankFrame ==
  [][(PlayCall /\ player.movie # Null /\ trace'.drawn = <<>>) =>
       trace'.skippedFrames >= player.frames]_vars

\* C27: after a play() call that signals a wrap and makes cycles c, the
\* descriptors the Player plays are those its timeline functions return for
\* the cycle c.
C27_RebuildPerCycle ==
  [][(PlayCall /\ ret' = "true" /\ ~build_throws(player._movie)) =>
       player'.movie = build(player')]_vars

\* C28: a load(m) that fails, m naming an unknown timeline function, throws
\* and leaves the Player as it was: the built movie, the animations, the
\* timeline, frames, frame and the movie reload() uses.
C28_FailedLoad ==
  [][(trace'.op = "load" /\ build_throws(the_movie')) =>
       /\ trace'.threw
       /\ player'.movie = player.movie
       /\ player'.animations = player.animations
       /\ player'.timeline = player.timeline
       /\ player'.frames = player.frames
       /\ player'.frame = player.frame
       /\ player'._movie = player._movie]_vars


-----------------------------------------------------------------------------
(* the broker connection and the startup resources *)

\* The broker stops answering: the Unix socket is gone or the server is down.
broker_down ==
  /\ "broker" \notin faults
  /\ faults' = faults \cup {"broker"}
  /\ UNCHANGED <<directorVars, ambientVars, brokerVars, hwaddr, socket_fd, rc_err, restarts, canvasVars, lifeVars, signalVars, dequeued, playerVars, senderVars>>

\* The broker answers again.
broker_up ==
  /\ "broker" \in faults
  /\ faults' = faults \ {"broker"}
  /\ UNCHANGED <<directorVars, ambientVars, brokerVars, hwaddr, socket_fd, rc_err, restarts, canvasVars, lifeVars, signalVars, dequeued, playerVars, senderVars>>

\* The Sender's steps when the broker can fail.
SenderBrokerNext ==
  \/ SenderNext
  \/ connect_to_redis_failed
  \/ connect_to_redis_retry
  \/ process_and_send_frame_error

\* The Sender with a broker that goes away and comes back, frames arriving.
NextBroker ==
  \/ SenderBrokerNext
  \/ broker_down
  \/ broker_up
  \/ \E e \in ValidFrames : Enqueue(e)

\* The Sender process keeps running; the broker and the producers are free.
SpecBroker == InitOneNic /\ [][NextBroker]_vars /\ WF_vars(SenderBrokerNext)

\* The Sender starts on a machine where socket() or malloc() may fail.
InitStartup ==
  /\ InitCanvas
  /\ InitLife
  /\ faults \in SUBSET {"socket", "malloc"}
  /\ socket_fd = -1 /\ rc_err = FALSE /\ restarts = 0
  /\ queue = <<>>
  /\ sender_brightness = NilReply
  /\ dequeued = -1
  /\ hwaddr = <<2, 0, 0, 0, 0, 1>>
  /\ InitSender
  /\ InitSignal
  /\ InitDirector
  /\ InitAmbient
  /\ InitPlayer

NextStartup ==
  \/ SenderNext
  \/ main_startup_no_memory
  \/ \E e \in ValidFrames : Enqueue(e)

SpecStartup == InitStartup /\ [][NextStartup]_vars

\* C29: a Sender whose broker connection broke in the main loop connects
\* again once the broker is reachable (and a failed connection attempt at
\* startup is followed by another one after the 1 s sleep).
C29_Reconnects ==
  /\ (pc = "connect_sleep") ~> (pc = "start")
  /\ (rc_err /\ "broker" \notin faults) ~> (~rc_err \/ "broker" \in faults)

\* C30: when socket() (and with it both interface lookups) or malloc() fails
\* at startup, the Sender never enters the main loop, hands nothing to
\* sendto(), and its exit code is not 0.
C30_StartupFailure ==
  ("socket" \in faults \/ "malloc" \in faults) =>
    /\ pc \in {"start", "exited"}
    /\ sent = NoPacket /\ wire = <<>>
    /\ exit_code # 0

-----------------------------------------------------------------------------
(* sends that fail *)

\* The Sender on a network where sendto() may fail, frames arriving and
\* time passing.
InitSendFail ==
  /\ InitCanvas
  /\ InitLife
  /\ faults = {"sendto"}
  /\ socket_fd = -1 /\ rc_err = FALSE /\ restarts = 0
  /\ queue = <<>>
  /\ sender_brightness = NilReply
  /\ dequeued = -1
  /\ hwaddr = <<2, 0, 0, 0, 0, 1>>
  /\ InitSender
  /\ InitSignal
  /\ InitDirector
  /\ InitAmbient
  /\ InitPlayer

SpecSendFail == InitSendFail /\ [][Next]_vars

\* a send of the burst on the wire has failed
SendFailed == \E i \in 1..Len(wire) : wire[i].ret < 0

\* C31: a sendto() that fails aborts neither the frame nor the loop. With a
\* failed send in the burst, the burst is still rows 0..63 of one frame in
\* order and then the commit; every row packet is followed by the next row
\* or by the wait for the deadline, the commit goes out at the deadline and
\* is followed by the next poll, and that poll takes the next queued frame
\* into its row loop.
C31_SendFailure ==
  /\ [](SendFailed =>
          /\ Len(wire) <= 65
          /\ \A i \in 1..Len(wire) :
               /\ wire[i].frame = wire[1].frame
               /\ i <= 64 => IsRowPacket(wire[i]) /\ wire[i].row = i - 1
               /\ i = 65 => IsCommitPacket(wire[i])
          /\ pc = "rows" => Len(wire) = (IF row = 0 THEN 65 ELSE row)
          /\ pc = "wait" => Len(wire) = 64
          /\ pc \in {"poll", "backoff", "shutdown", "exited"} => Len(wire) = 65)
  /\ [][(wire' # wire /\ wire'[Len(wire')].ret < 0) =>
          IF IsCommitPacket(sent')
            THEN Reached(elapsed) /\ elapsed' = 0 /\ pc' = "poll"
            ELSE pc' = "rows" /\ row' = Len(wire')]_vars
  /\ [][(pc = "poll" /\ SendFailed /\ pc' # pc /\ queue # <<>>
           /\ Head(queue).len = ExpectedLen) =>
          pc' = "rows" /\ row' = 0 /\ rr_blpop' = ArrayReply(Head(queue))]_vars

\* a burst whose first row, a middle row and commit all failed is complete,
\* and the next frame has been taken
C31_Witness ==
  /\ pc = "rows" /\ row = 0 /\ rr_blpop.seed = 2
  /\ Len(wire) = 65 /\ wire[1].frame.seed = 1
  /\ wire[1].ret < 0 /\ wire[32].ret < 0 /\ wire[65].ret < 0 /\ wire[64].ret > 0

-----------------------------------------------------------------------------
(* the hybrid wait *)

\* What the clock may show when the rows of a frame have gone out, in ns since
\* the frame-start timestamp: values around the 200 us threshold
\* (1/240 s - 200 us = 3,966,666.67 ns), around the margin, and in between.
EntryTimes ==
  {1, 999, 1000, 500000, 2100000, 3766000, 3966000, 3966665, 3966666, 3966667,
   3966999, 3967000, 4000000, 4066666, 4066667, 4100000, 4166665, 4166666, 4166667}

\* The dequeue and the conversion of the frame took n ns.
Elapse(n) ==
  /\ pc = "rows" /\ row = 0
  /\ elapsed = 0
  /\ elapsed' = Saturate(n)
  /\ UNCHANGED <<directorVars, ambientVars, brokerVars, hwaddr, faultVars, canvasVars, lifeVars, signalVars, dequeued, playerVars, pc, row, src, rr_blpop, rr_brightness, payload,
                 current_brightness, frame_data, src_mac, sent, wire>>

NextWait ==
  \/ SenderNext
  \/ \E e \in ValidFrames : Enqueue(e)
  \/ \E n \in EntryTimes : Elapse(n)

\* The Sender with frames that take any of EntryTimes to prepare; in the
\* wait loop only the loop itself reads the clock.
SpecWait == InitOneNic /\ [][NextWait]_vars

\* C32: an iteration of the wait loop that ends before the deadline is a
\* timed sleep: it was requested with more than 200 us remaining, it ends at
\* least 100 us before the deadline and less than 1 us (the truncation to
\* whole microseconds) before that point. With 200 us or less remaining the
\* iteration ends at the deadline, by polling.
C32_HybridWait ==
  [][(pc = "wait" /\ pc' = "wait" /\ elapsed' # elapsed) =>
       /\ elapsed' > elapsed
       /\ elapsed' < DeadlineNs =>
            /\ BILLION - FPS * elapsed > FPS * 200000
            /\ FPS * (elapsed' + 100000) <= BILLION
            /\ FPS * (elapsed' + 100000 + 1000) > BILLION
       /\ BILLION - FPS * elapsed <= FPS * 200000 => elapsed' = DeadlineNs]_vars

\* a sleep of 100 us, requested with 200.0017 us remaining, has ended
\* 100.0017 us before the deadline
C32_Witness == pc = "wait" /\ elapsed = 3966665 + 100000

-----------------------------------------------------------------------------
(* a frame that is late *)

\* C33: with the rows of a frame out and 1/240 s or more gone since the
\* frame-start timestamp, the Sender's next step is the commit packet (no
\* sleep, no clock poll comes first) and it takes the new frame-start
\* timestamp; the commit after it waits for 1/240 s from there.
C33_LateFrame ==
  /\ [][(pc = "wait" /\ Reached(elapsed) /\ Len(wire) = 64
           /\ <<pc, elapsed, sent, wire>>' # <<pc, elapsed, sent, wire>>) =>
          /\ IsCommitPacket(sent') /\ Len(wire') = 65
          /\ wire'[65].frame = rr_blpop
          /\ elapsed' = 0
          /\ pc' = "poll"]_vars
  /\ [][(IsCommitPacket(sent') /\ wire' # wire) => elapsed >= DeadlineNs]_vars

\* the rows of a frame went out after a BLPOP that timed out: the deadline
\* has passed before the wait loop is reached
C33_Witness ==
  /\ pc = "wait" /\ elapsed = DeadlineNs /\ Len(wire) = 64
  /\ wire[1].frame = rr_blpop /\ rr_blpop.seed = 2

-----------------------------------------------------------------------------
(* the flush *)

\* a step of the Director that takes frames off the list or starts the
\* 100 ms pause
FlushOrPause ==
  \/ d_pc' # d_pc /\ Len(queue') < Len(queue)
  \/ d_pc' # d_pc /\ dequeued' # dequeued
  \/ d_sleep' = PLAYER_BACKOFF_MS /\ d_sleep # PLAYER_BACKOFF_MS

\* C34: the Director waits 5 ms only after an append that returned fps, goes
\* on to the flush only after a re-read that returned fps, and takes frames
\* off the list or pauses 100 ms only in that flush; an append or a re-read
\* that returns another length is followed by the next play() with the list
\* as it is.
C34_FlushOnlyWhenFull ==
  /\ [](d_pc \in {"sender_wait", "flush"} => pushed = 240)
  /\ [][d_pc' = "sender_wait" =>
          d_pc \in {"play", "sender_wait"} /\ (d_pc = "play" => Len(queue') = 240)]_vars
  /\ [][(d_pc' = "flush" /\ d_pc # "flush") =>
          d_pc = "sender_wait" /\ Len(queue) = 240 /\ queue' = queue]_vars
  /\ [][FlushOrPause => d_pc = "flush" /\ d_pc' = "backoff"]_vars
  /\ [][(d_pc = "sender_wait" /\ d_pc' # d_pc /\ Len(queue) # 240) =>
          d_pc' = "play" /\ queue' = queue /\ d_sleep' = 0]_vars
  /\ [][(d_pc = "play" /\ pushed' # pushed /\ Len(queue') # 240) =>
          d_pc' = "play" /\ d_sleep' = 0 /\ Len(queue') = Len(queue) + 1]_vars

\* the list was flushed: fps frames appended, the Sender took none
C34_Witness ==
  d_pc = "backoff" /\ queue = <<>> /\ pushed = 240 /\ d_sleep = 100 /\ dequeued = -1

-----------------------------------------------------------------------------
(* the Director's startup and the ambient controller's updates *)

NextSubscribe ==
  \/ director_subscribe
  \/ director_get
  \/ director_load
  \/ subscriber_on_inbox
  \/ \E m \in Updates : ambient_publish(m)
  \/ ambient_set

\* The Director starting while the ambient controller publishes and stores
\* its values, the broker serving the commands in any order the connections
\* allow.
SpecSubscribe == InitConnect /\ [][NextSubscribe]_vars

\* C35: once a brightness message has been handled, the Player's brightness
\* is the value of the last message handled: nothing but a newer message
\* changes it.
C35_LastMessage ==
  /\ [](lastMessage # <<>> => player.brightness = Number(lastMessage))
  /\ [][(lastMessage' = lastMessage /\ lastMessage # <<>>) =>
          player'.brightness = player.brightness]_vars

\* C38: with the startup finished and the last published update handled (no
\* message waiting), the Player's brightness is the last published value.
C38_NoStaleOverwrite ==
  (d_pc = "play" /\ inbox = <<>> /\ channel # <<>> /\ lastMessage = channel) =>
    player.brightness = Number(channel)

-----------------------------------------------------------------------------
(* the I2C bus *)

\* The ambient controller on a bus where any transaction may fail.
InitI2C ==
  /\ InitCanvas
  /\ InitLife
  /\ faults = {"i2c"}
  /\ socket_fd = -1 /\ rc_err = FALSE /\ restarts = 0
  /\ queue = <<>>
  /\ sender_brightness = NilReply
  /\ dequeued = -1
  /\ hwaddr = <<2, 0, 0, 0, 0, 1>>
  /\ InitSender
  /\ InitSignal
  /\ InitDirector
  /\ InitAmbient
  /\ InitPlayer

NextI2C ==
  \/ AmbientNext
  \/ readLux_throws
  \/ ambient_backoff

SpecI2C == InitI2C /\ [][NextI2C]_vars

\* C36: a cycle whose I2C transaction fails closes the bus handle and goes
\* to the 1 s sleep with nothing published or stored and the current
\* brightness and the window as they were; the handle stays closed during
\* the sleep, and the reading after it is taken on a handle opened again.
C36_BusReset ==
  /\ [][(a_pc = "loop" /\ a_pc' = "backoff") =>
          /\ i2cBus' = "null"
          /\ channel' = channel /\ player_brightness' = player_brightness
          /\ currentBrightness' = currentBrightness
          /\ sensorReadings' = sensorReadings]_vars
  /\ [](a_pc = "backoff" => i2cBus = "null")
  /\ [][(a_pc = "backoff" /\ a_pc' # a_pc) =>
          a_pc' = "loop" /\ i2cBus' = "null" /\ UNCHANGED ambientVars]_vars
  /\ [][sensorReadings' # sensorReadings => a_pc = "loop" /\ i2cBus' = "open"]_vars

\* a transaction failed after readings had moved the brightness to 11
C36_Witness ==
  /\ a_pc = "backoff" /\ i2cBus = "null"
  /\ currentBrightness = 11 /\ channel = <<"1", "1">> /\ Len(sensorReadings) = 2

-----------------------------------------------------------------------------
(* SIGINT and SIGTERM in the Director and the ambient controller *)

\* The Director and the ambient controller (in constant bright light) with
\* a signal delivered to each at any moment.  The two are separate processes
\* that share nothing in these steps, so each is followed while the other
\* one has not left its initial state.
NextShutdown ==
  \/ /\ a_shutdown = 0 /\ sensorReadings = <<>>
     /\ \/ DirectorNext
        \/ director_rejected
        \/ director_error_backoff
        \/ director_shutdown
        \/ director_shutdown_quit
        \/ director_shutdown_exit
  \/ /\ d_shutdown = 0 /\ d_pc = "play" /\ rendered = 0 /\ queue = <<>> /\ pushed = 0
     /\ \/ updateBrightness(12000)
        \/ updateBrightness_rejected(12000)
        \/ ambient_backoff
        \/ ambient_shutdown
        \/ ambient_shutdown_quit
        \/ ambient_shutdown_exit

SpecShutdown == InitOneNic /\ [][NextShutdown]_vars

\* C37: when a connection or the bus is released the loop is between two
\* iterations; once the release has begun the Director renders and appends
\* nothing and starts no other broker command, the ambient controller opens
\* no bus, takes no reading and publishes nothing; the processes end by
\* process.exit(0) only.
C37_GracefulShutdown ==
  /\ [][d_shutdown' \in {1, 2} /\ d_shutdown' # d_shutdown => d_pc = "play"]_vars
  /\ [][a_shutdown' \in {1, 2} /\ a_shutdown' # a_shutdown => a_pc = "loop"]_vars
  /\ [][d_shutdown >= 1 =>
          /\ rendered' = rendered /\ queue' = queue /\ pushed' = pushed
          /\ d_pc' \in {d_pc, "exited"}]_vars
  /\ [][a_shutdown >= 1 =>
          /\ i2cBus' # "open" /\ sensorReadings' = sensorReadings
          /\ channel' = channel /\ player_brightness' = player_brightness
          /\ a_pc' \in {a_pc, "exited"}]_vars
  /\ [](d_pc = "exited" => d_shutdown = 3)
  /\ [](a_pc = "exited" => a_shutdown = 3)

-----------------------------------------------------------------------------
(* The ambient controller under a light that settles *)

NextLight ==
  \/ ambient_cycle
  \/ \E raw \in LightLevels : light_changes(raw)

\* The loop of sense.ts never stops taking cycles; the light changes when it
\* likes, MaxChanges times at most.
SpecLight == InitOneNic /\ [][NextLight]_vars /\ WF_vars(ambient_cycle)

-----------------------------------------------------------------------------
(* the frame position of the Player *)

\* C40: with a movie of at least one frame loaded, frame is in 0..frames - 1
\* between the calls; a play() call on it makes at least one iteration and
\* leaves frame the number of its iterations further, modulo frames, with
\* frames as it was; a play() call with no movie loaded leaves the Player as
\* it is and returns undefined.
C40_FrameInRange ==
  /\ [](player.movie # Null /\ player.frames > 0 =>
          player.frame >= 0 /\ player.frame < player.frames)
  /\ [][PlayCall /\ player.movie # Null /\ player.frames > 0 =>
          /\ trace'.skippedFrames >= 1
          /\ player'.frames = player.frames
          /\ player'.frame = (player.frame + trace'.skippedFrames) % player.frames]_vars
  /\ [][PlayCall /\ player.movie = Null =>
          player' = player /\ ret' = "undefined"]_vars

\* a call that went over the gap between the two scenes of GapMovie
C40_Witness ==
  /\ trace.op = "play" /\ player._movie = GapMovie /\ player.movie # Null
  /\ trace.skippedFrames > 1
  /\ player.frame = trace.sought + 1

====
